---- MODULE Spec2Model ----
(***************************************************************************)
(* A model of the fs9p client session (src/src/session.rs) together with   *)
(* its codec (message.rs), path utilities and directory parsers (parse.rs) *)
(* and protocol constants (protocol.rs).                                   *)
(*                                                                         *)
(* Representation of machine integers.  TLC integers are 32-bit signed, so *)
(* a u32 is kept as two 16-bit limbs [hi, lo] and a u64 as a sequence of   *)
(* four 16-bit limbs, least significant first.  u8 and u16 are plain       *)
(* naturals.  Byte strings (&[u8], &str, String, Vec<u8>) are sequences of *)
(* naturals in 0..255.  Offsets into buffers are 0-based as in the source; *)
(* buf[off + 1] is the byte the source calls buf[off].                     *)
(***************************************************************************)
EXTENDS Integers, Sequences, FiniteSets, TLC

(***************************************************************************)
(* protocol.rs: constants                                                  *)
(***************************************************************************)
NO_TAG == 65535
TVERSION == 100
RVERSION == 101
TATTACH == 104
RATTACH == 105
RERROR == 107
RLERROR == 7
TREMOVE == 122
RREMOVE == 123
TWALK == 110
RWALK == 111
TOPEN == 112
ROPEN == 113
TCREATE == 114
RCREATE == 115
TREAD == 116
RREAD == 117
TWRITE == 118
RWRITE == 119
TCLUNK == 120
RCLUNK == 121
TREADLINK == 22
RREADLINK == 23
TLINK == 70
RLINK == 71
TMKDIR == 72
RMKDIR == 73
TSYMLINK == 16
RSYMLINK == 17
TSETATTR == 26
RSETATTR == 27
TLOPEN == 12
RLOPEN == 13
TLCREATE == 14
RLCREATE == 15
TGETATTR == 24
RGETATTR == 25
TRENAME == 20
RRENAME == 21
TREADDIR == 40
RREADDIR == 41
TFSYNC == 50
RFSYNC == 51
OREAD == 0
ORDWR == 2

(***************************************************************************)
(* Machine integers                                                        *)
(***************************************************************************)
\* A u32 from a natural below 2^31.
U32(n) == [hi |-> n \div 65536, lo |-> n % 65536]

\* u32::wrapping_add(x, 1)
U32WrappingInc(x) ==
    IF x.lo < 65535 THEN [hi |-> x.hi, lo |-> x.lo + 1]
    ELSE [hi |-> (x.hi + 1) % 65536, lo |-> 0]

\* u32::wrapping_add(x, y)
U32WrappingAdd(x, y) ==
    LET l == x.lo + y.lo
    IN  [hi |-> (x.hi + y.hi + (l \div 65536)) % 65536, lo |-> l % 65536]

U32Less(x, y) == x.hi < y.hi \/ (x.hi = y.hi /\ x.lo < y.lo)

\* u32::max
U32Max(x, y) == IF U32Less(x, y) THEN y ELSE x

\* x - n for a natural n <= 65535; the source's plain `-` panics on underflow
\* (debug) or wraps (release): the caller guards with U32Less.
U32SubSmall(x, n) ==
    IF x.lo >= n THEN [hi |-> x.hi, lo |-> x.lo - n]
    ELSE [hi |-> (x.hi + 65535) % 65536, lo |-> x.lo + 65536 - n]

\* u32::saturating_sub(x, n) for a natural n <= 65535
U32SaturatingSub(x, n) == IF U32Less(x, U32(n)) THEN U32(0) ELSE U32SubSmall(x, n)

\* u32::to_le_bytes
U32Bytes(x) == <<x.lo % 256, x.lo \div 256, x.hi % 256, x.hi \div 256>>

\* A u64 from a natural below 2^31.
U64(n) == <<n % 65536, n \div 65536, 0, 0>>

\* u64 `>`: compared from the most significant limb down.
U64Greater(a, b) ==
    \/ a[4] > b[4]
    \/ a[4] = b[4] /\ a[3] > b[3]
    \/ a[4] = b[4] /\ a[3] = b[3] /\ a[2] > b[2]
    \/ a[4] = b[4] /\ a[3] = b[3] /\ a[2] = b[2] /\ a[1] > b[1]

\* u64 `+=` of a natural n below 2^31 (carries propagate; the top carry wraps).
U64AddNat(a, n) ==
    LET s1 == a[1] + (n % 65536)
        s2 == a[2] + (n \div 65536) + (s1 \div 65536)
        s3 == a[3] + (s2 \div 65536)
        s4 == a[4] + (s3 \div 65536)
    IN  <<s1 % 65536, s2 % 65536, s3 % 65536, s4 % 65536>>

\* u64::to_le_bytes
U64Bytes(a) ==
    <<a[1] % 256, a[1] \div 256, a[2] % 256, a[2] \div 256,
      a[3] % 256, a[3] \div 256, a[4] % 256, a[4] \div 256>>

NO_FID == [hi |-> 65535, lo |-> 65535]
DEFAULT_MSIZE == U32(16384)
root_fid == U32(1)
P9_DOTL_RDONLY == U32(0)
P9_DOTL_RDWR == U32(2)
P9_DOTL_CREATE == U32(256)
P9_SETATTR_MODE == U32(1)
P9_ATTR_SIZE == U32(8)
P9_STATS_BASIC == U64(2047)
DMDIR == [hi |-> 32768, lo |-> 0]

\* `|` on u16 limbs and on u32
RECURSIVE BitOr(_, _)
BitOr(a, b) ==
    IF a = 0 THEN b
    ELSE IF b = 0 THEN a
    ELSE (IF a % 2 = 1 \/ b % 2 = 1 THEN 1 ELSE 0) + 2 * BitOr(a \div 2, b \div 2)

U32Or(x, y) == [hi |-> BitOr(x.hi, y.hi), lo |-> BitOr(x.lo, y.lo)]

\* DMDIR | 0o755
DirPerm == U32Or(DMDIR, U32(493))

Max(a, b) == IF a > b THEN a ELSE b

\* `let x = v; F(x)`: F applied to the value of v, v being evaluated once.
Bind(v, F(_)) == CHOOSE y \in { F(x) : x \in {v} } : TRUE

(***************************************************************************)
(* message.rs: the request builder                                         *)
(***************************************************************************)
Message_new(msg_type, tag) == <<0, 0, 0, 0, msg_type, tag % 256, tag \div 256>>

push_u8(buf, value) == Append(buf, value)

push_u16(buf, value) == buf \o <<value % 256, value \div 256>>

push_u32(buf, value) == buf \o U32Bytes(value)

push_u64(buf, value) == buf \o U64Bytes(value)

\* `bytes.len() as u16` truncates the length; the bytes are appended whole.
push_str(buf, value) == push_u16(buf, Len(value) % 65536) \o value

push_bytes(buf, bytes) == buf \o bytes

\* A variant of finish that leaves the four placeholder bytes as they are.
finish_unpatched(buf) == buf

\* `self.buf.len() as u32` written little-endian over the first four bytes.
finish(buf) ==
    LET size == Len(buf)
    IN  <<size % 256, (size \div 256) % 256, (size \div 65536) % 256,
          (size \div 16777216) % 256>> \o SubSeq(buf, 5, Len(buf))

(***************************************************************************)
(* message.rs: the bounded readers.  Each returns [ok, val, off] or        *)
(* [ok |-> FALSE, msg], off being the advanced cursor.                     *)
(***************************************************************************)
RdOk(v, o) == [ok |-> TRUE, val |-> v, off |-> o, msg |-> ""]
RdErr(m) == [ok |-> FALSE, val |-> 0, off |-> 0, msg |-> m]

read_u8(buf, offset) ==
    IF offset + 1 > Len(buf) THEN RdErr("short buffer")
    ELSE RdOk(buf[offset + 1], offset + 1)

read_u16(buf, offset) ==
    IF offset + 2 > Len(buf) THEN RdErr("short buffer")
    ELSE RdOk(buf[offset + 1] + 256 * buf[offset + 2], offset + 2)

read_u32(buf, offset) ==
    IF offset + 4 > Len(buf) THEN RdErr("short buffer")
    ELSE RdOk([lo |-> buf[offset + 1] + 256 * buf[offset + 2],
               hi |-> buf[offset + 3] + 256 * buf[offset + 4]], offset + 4)

read_u64(buf, offset) ==
    IF offset + 8 > Len(buf) THEN RdErr("short buffer")
    ELSE RdOk(<<buf[offset + 1] + 256 * buf[offset + 2],
                buf[offset + 3] + 256 * buf[offset + 4],
                buf[offset + 5] + 256 * buf[offset + 6],
                buf[offset + 7] + 256 * buf[offset + 8]>>, offset + 8)

\* core::str::from_utf8: well-formed UTF-8 (no overlongs, no surrogates,
\* nothing above U+10FFFF).
RECURSIVE Utf8Valid(_)
Utf8Valid(b) ==
    LET n == Len(b)
        Cont(i) == i <= n /\ b[i] >= 128 /\ b[i] <= 191
        In(i, lo, hi) == i <= n /\ b[i] >= lo /\ b[i] <= hi
        Rest(k) == Utf8Valid(SubSeq(b, k + 1, n))
    IN  IF n = 0 THEN TRUE
        ELSE IF b[1] < 128 THEN Rest(1)
        ELSE IF b[1] >= 194 /\ b[1] <= 223 THEN Cont(2) /\ Rest(2)
        ELSE IF b[1] = 224 THEN In(2, 160, 191) /\ Cont(3) /\ Rest(3)
        ELSE IF b[1] = 237 THEN In(2, 128, 159) /\ Cont(3) /\ Rest(3)
        ELSE IF b[1] >= 225 /\ b[1] <= 239 THEN Cont(2) /\ Cont(3) /\ Rest(3)
        ELSE IF b[1] = 240 THEN In(2, 144, 191) /\ Cont(3) /\ Cont(4) /\ Rest(4)
        ELSE IF b[1] >= 241 /\ b[1] <= 243 THEN Cont(2) /\ Cont(3) /\ Cont(4) /\ Rest(4)
        ELSE IF b[1] = 244 THEN In(2, 128, 143) /\ Cont(3) /\ Cont(4) /\ Rest(4)
        ELSE FALSE

read_str(buf, offset) ==
    Bind(read_u16(buf, offset), LAMBDA l :
        IF ~l.ok THEN l
        ELSE IF l.off + l.val > Len(buf) THEN RdErr("short buffer")
        ELSE Bind(SubSeq(buf, l.off + 1, l.off + l.val), LAMBDA value :
                 IF ~Utf8Valid(value) THEN RdErr("invalid utf8")
                 ELSE RdOk(value, l.off + l.val)))

read_qid(buf, offset) ==
    Bind(read_u8(buf, offset), LAMBDA t :
        IF ~t.ok THEN t
        ELSE Bind(read_u32(buf, t.off), LAMBDA v :
        IF ~v.ok THEN v
        ELSE Bind(read_u64(buf, v.off), LAMBDA p :
        IF ~p.ok THEN p
        ELSE RdOk([type_ |-> t.val, version |-> v.val, path |-> p.val], p.off))))

(***************************************************************************)
(* parse.rs: path utilities                                                *)
(***************************************************************************)
SLASH == 47
DOT == 46

\* str::trim_end_matches('/')
RECURSIVE TrimEndSlashes(_)
TrimEndSlashes(path) ==
    IF Len(path) > 0 /\ path[Len(path)] = SLASH
    THEN TrimEndSlashes(SubSeq(path, 1, Len(path) - 1))
    ELSE path

\* The index of the last '/' of s, 0 when there is none.
RECURSIVE LastSlash(_)
LastSlash(s) ==
    IF Len(s) = 0 THEN 0
    ELSE IF s[Len(s)] = SLASH THEN Len(s)
    ELSE LastSlash(SubSeq(s, 1, Len(s) - 1))

\* Result<(&str, &str), String> as [ok, parent, name, msg]
split_parent_name(path) ==
    LET trimmed == TrimEndSlashes(path)
        cut == LastSlash(trimmed)
        \* rsplitn(2, '/'): the leaf first, then everything before the last '/'
        name == SubSeq(trimmed, cut + 1, Len(trimmed))
        parent0 == IF cut = 0 THEN <<>> ELSE SubSeq(trimmed, 1, cut - 1)
        parent == IF parent0 = <<>> THEN <<SLASH>> ELSE parent0
    IN  IF trimmed = <<>> \/ trimmed = <<SLASH>>
        THEN [ok |-> FALSE, parent |-> <<>>, name |-> <<>>, msg |-> "invalid path"]
        ELSE IF name = <<>>
        THEN [ok |-> FALSE, parent |-> <<>>, name |-> <<>>, msg |-> "invalid path"]
        ELSE [ok |-> TRUE, parent |-> parent, name |-> name, msg |-> ""]

\* str::split('/'): the pieces between slashes, empty pieces included.
RECURSIVE SplitSlash(_, _)
SplitSlash(s, cur) ==
    IF Len(s) = 0 THEN <<cur>>
    ELSE IF s[1] = SLASH THEN <<cur>> \o SplitSlash(Tail(s), <<>>)
    ELSE SplitSlash(Tail(s), Append(cur, s[1]))

path_parts(path) ==
    SelectSeq(SplitSlash(path, <<>>), LAMBDA part : part # <<>> /\ part # <<DOT>>)

(***************************************************************************)
(* parse.rs: directory entry parsers                                       *)
(***************************************************************************)
\* A variant of IsDotName that takes no name for "." or "..".
IsDotNameNever(name) == FALSE

IsDotName(name) == name = <<DOT>> \/ name = <<DOT, DOT>>

\* Result<String, String> as a reader result
parse_stat_name(buf) ==
    IF Len(buf) < 39 THEN RdErr("stat too short")
    ELSE LET type == read_u16(buf, 0)
             dev == read_u32(buf, type.off)
             qid == read_qid(buf, dev.off)
             mode == read_u32(buf, qid.off)
             atime == read_u32(buf, mode.off)
             mtime == read_u32(buf, atime.off)
             length == read_u64(buf, mtime.off)
         IN  read_str(buf, length.off)

\* The loop of parse_dir_entries from `offset` on, `names` being the output
\* vector so far.  [ok, names, msg]
RECURSIVE ParseStatLoop(_, _, _)
ParseStatLoop(data, offset, names) ==
    IF ~(offset + 2 <= Len(data)) THEN [ok |-> TRUE, names |-> names, msg |-> ""]
    ELSE LET size == data[offset + 1] + 256 * data[offset + 2]
             off2 == offset + 2
         IN  IF off2 + size > Len(data) THEN [ok |-> TRUE, names |-> names, msg |-> ""]
             ELSE Bind(parse_stat_name(SubSeq(data, off2 + 1, off2 + size)), LAMBDA name :
                      IF ~name.ok THEN [ok |-> FALSE, names |-> names, msg |-> name.msg]
                      ELSE ParseStatLoop(data, off2 + size,
                               IF IsDotName(name.val) THEN names
                               ELSE Append(names, name.val)))

parse_dir_entries(data, names) == ParseStatLoop(data, 0, names)

\* The loop shared by parse_dir_entries_l and readdir_entries: entries are
\* [name, entry_type]; last is the Option<u64> (<<>> is None, <<v>> is Some(v)).
DirentFail(m) == [ok |-> FALSE, entries |-> <<>>, last |-> <<>>, msg |-> m]

RECURSIVE ParseDirentLoop(_, _, _, _)
ParseDirentLoop(data, offset, entries, last) ==
    IF ~(offset < Len(data))
    THEN [ok |-> TRUE, entries |-> entries, last |-> last, msg |-> ""]
    ELSE Bind(read_qid(data, offset), LAMBDA qid :
         IF ~qid.ok THEN DirentFail(qid.msg)
         ELSE Bind(read_u64(data, qid.off), LAMBDA entry_offset :
         IF ~entry_offset.ok THEN DirentFail(entry_offset.msg)
         ELSE Bind(read_u8(data, entry_offset.off), LAMBDA entry_type :
         IF ~entry_type.ok THEN DirentFail(entry_type.msg)
         ELSE Bind(read_str(data, entry_type.off), LAMBDA name :
         IF ~name.ok THEN DirentFail(name.msg)
         ELSE ParseDirentLoop(data, name.off,
                  IF IsDotName(name.val) THEN entries
                  ELSE Append(entries, [name |-> name.val,
                                        entry_type |-> entry_type.val]),
                  <<entry_offset.val>>)))))

\* Result<(Vec<String>, Option<u64>), String> as [ok, entries, last, msg]
parse_dir_entries_l(data) ==
    Bind(ParseDirentLoop(data, 0, <<>>, <<>>), LAMBDA r :
        [ok |-> r.ok, entries |-> [i \in 1..Len(r.entries) |-> r.entries[i].name],
         last |-> r.last, msg |-> r.msg])

(***************************************************************************)
(* session.rs: state                                                       *)
(*                                                                         *)
(* msize, next_tag, next_fid, p9_version are the fields of P9Session       *)
(* (root_fid is the constant 1 and mount_tag a constant string).           *)
(* pc / op / loc are the position inside the public operation being run:   *)
(* every action is one transport exchange together with the code that runs *)
(* up to the next exchange or the return.  pc = "idle": no call is running *)
(* and the caller may make one; pc = "done": a call has just returned and  *)
(* `result` is its return value; otherwise pc names the exchange the       *)
(* running call makes next.                                                *)
(* The remaining variables observe the run:                                *)
(*   log     the exchanges of the current (or last) public operation, each *)
(*           [req, rep, res]: request frame, transport reply, and what     *)
(*           send_recv returned for it                                     *)
(*   result  what the last public operation returned                       *)
(*   allocd  the fids alloc_fid returned during the operation, in order    *)
(*   walked  the fids bound by the operation's successful walk_path calls  *)
(*   held    fids returned to the caller by open/create, not yet passed to *)
(*           close_fid                                                     *)
(*   last_tag  the tag returned by the latest alloc_tag call (0 before the *)
(*           first call)                                                   *)
(*   nops, nruns  number of public calls made / of long runs taken         *)
(***************************************************************************)
VARIABLES msize, next_tag, next_fid, p9_version, pc, op, loc, log, result,
          allocd, walked, held, last_tag, nops, nruns

vars == <<msize, next_tag, next_fid, p9_version, pc, op, loc, log, result,
          allocd, walked, held, last_tag, nops, nruns>>

session == <<msize, next_tag, next_fid, p9_version>>

\* Result<T, String>.  An error String is kept as a fixed text `msg` plus the
\* formatted argument `arg` (a sequence of naturals): the RERROR text itself,
\* the two limbs <<hi, lo>> of an errno, or the type byte.
Ok(v) == [ok |-> TRUE, val |-> v, msg |-> "", arg |-> <<>>]
Err(m, a) == [ok |-> FALSE, val |-> <<>>, msg |-> m, arg |-> a]

\* "unknown"
StrUnknown == <<117, 110, 107, 110, 111, 119, 110>>
\* "root"
StrRoot == <<114, 111, 111, 116>>
\* "9P2000.L" and "9P2000.u"
Str9P2000L == <<57, 80, 50, 48, 48, 48, 46, 76>>
Str9P2000u == <<57, 80, 50, 48, 48, 48, 46, 117>>

\* str::to_ascii_lowercase
to_ascii_lowercase(value) ==
    [i \in 1..Len(value) |->
        IF value[i] >= 65 /\ value[i] <= 90 THEN value[i] + 32 ELSE value[i]]

\* A variant of from_str that takes every other string for plain 9P2000.
from_str_lenient(value) ==
    LET low == to_ascii_lowercase(value)
    IN  IF low = <<57, 112, 50, 48, 48, 48, 46, 108>> THEN "P2000L"
        ELSE IF low = <<57, 112, 50, 48, 48, 48, 46, 117>> THEN "P2000U"
        ELSE "P2000"

\* A variant of from_str that compares case-sensitively with the strings
\* "9P2000.L", "9P2000.u", "9P2000".
from_str_exact(value) ==
    IF value = Str9P2000L THEN "P2000L"
    ELSE IF value = Str9P2000u THEN "P2000U"
    ELSE IF value = <<57, 80, 50, 48, 48, 48>> THEN "P2000"
    ELSE "None"

\* P9Version::from_str: Option<P9Version>, "None" standing for None
from_str(value) ==
    LET low == to_ascii_lowercase(value)
    IN  IF low = <<57, 112, 50, 48, 48, 48, 46, 108>> THEN "P2000L"
        ELSE IF low = <<57, 112, 50, 48, 48, 48, 46, 117>> THEN "P2000U"
        ELSE IF low = <<57, 112, 50, 48, 48, 48>> THEN "P2000"
        ELSE "None"

\* A variant of is_dotl that holds of every dialect.
is_dotl_any(version) == version = version

is_dotl(version) == version = "P2000L"

\* A variant of max_read_count without the headroom.
max_read_count_whole(m) == m

max_read_count(m) == U32SaturatingSub(m, 64)

\* A variant of alloc_tag without the NO_TAG skip.
alloc_tag_no_skip(nt) == [tag |-> nt, next |-> (nt + 1) % 65536]

\* alloc_tag: [tag, next] = the returned tag and the new next_tag
alloc_tag(nt) ==
    LET tag == nt
        n1 == (nt + 1) % 65536
    IN  IF tag = NO_TAG THEN [tag |-> n1, next |-> (n1 + 1) % 65536]
        ELSE [tag |-> tag, next |-> n1]

\* alloc_fid: [fid, next] = the returned fid and the new next_fid
alloc_fid(nf) == [fid |-> nf, next |-> U32WrappingInc(nf)]

\* A variant of send_recv that checks the type before RERROR / RLERROR and
\* never compares the tag.
send_recv_untagged(req, expect, tag, reply) ==
    IF reply.terr THEN Err("transport error", <<>>)
    ELSE IF Len(reply.buf) < 7 THEN Err("short 9p response", <<>>)
    ELSE IF reply.buf[5] # expect
    THEN Err("unexpected response type: ", <<reply.buf[5]>>)
    ELSE Ok(SubSeq(reply.buf, 8, Len(reply.buf)))

\* send_recv.  `reply` is what transport.request did with the request:
\* [terr |-> TRUE] for Err(..), else buf = the first `size` bytes of resp.
\* The transport writes into a buffer of msize bytes, so Len(buf) <= msize.
send_recv(req, expect, tag, reply) ==
    IF reply.terr THEN Err("transport error", <<>>)
    ELSE LET resp == reply.buf
             size == Len(resp)
         IN  IF size < 7 THEN Err("short 9p response", <<>>)
             ELSE LET resp_type == resp[5]
                      resp_tag == resp[6] + 256 * resp[7]
                  IN  IF resp_type = RERROR
                      THEN Bind(read_str(resp, 7), LAMBDA m :
                               Err("rerror", IF m.ok THEN m.val ELSE StrUnknown))
                      ELSE IF resp_type = RLERROR
                      THEN Bind(read_u32(resp, 7), LAMBDA e :
                               Err("rlerror errno=",
                                   IF e.ok THEN <<e.val.hi, e.val.lo>> ELSE <<0, 0>>))
                      ELSE IF resp_type # expect
                      THEN Err("unexpected response type: ", <<resp_type>>)
                      ELSE IF resp_tag # tag
                      THEN Err("tag mismatch", <<>>)
                      ELSE Ok(SubSeq(resp, 8, size))

\* What one exchange of a primitive yields: the advanced next_tag, the frame
\* sent, send_recv's verdict `raw` and the primitive's own Result `res`.
Xchg(nt, req, raw, res) == [next_tag |-> nt, req |-> req, raw |-> raw, res |-> res]

\* `self.send_recv(msg.finish(), expect, tag)`: res.val is the payload
PayloadExchange(a, msg, expect, reply) ==
    Bind(finish(msg), LAMBDA req :
    Bind(send_recv(req, expect, a.tag, reply), LAMBDA r : Xchg(a.next, req, r, r)))

\* The common shape `let _ = self.send_recv(..)?; Ok(())`
UnitExchange(a, msg, expect, reply) ==
    Bind(finish(msg), LAMBDA req :
    Bind(send_recv(req, expect, a.tag, reply), LAMBDA r :
        Xchg(a.next, req, r, IF r.ok THEN Ok(<<>>) ELSE r)))

RECURSIVE PushNames(_, _)
PushNames(msg, names) ==
    IF names = <<>> THEN msg ELSE PushNames(push_str(msg, Head(names)), Tail(names))

\* `for _ in 0..nwqid { qids.push(read_qid(..)?) }`: [ok, qids, msg]
RECURSIVE ReadQids(_, _, _, _)
ReadQids(resp, offset, n, qids) ==
    IF n = 0 THEN [ok |-> TRUE, qids |-> qids, msg |-> ""]
    ELSE Bind(read_qid(resp, offset), LAMBDA q :
             IF ~q.ok THEN [ok |-> FALSE, qids |-> qids, msg |-> q.msg]
             ELSE ReadQids(resp, q.off, n - 1, Append(qids, q.val)))

\* A variant of WalkResult without the `nwqid < names.len()` check.
WalkResultUnchecked(resp, names) ==
    Bind(read_u16(resp, 0), LAMBDA nwqid :
        IF ~nwqid.ok THEN Err(nwqid.msg, <<>>)
        ELSE Bind(ReadQids(resp, nwqid.off, nwqid.val, <<>>), LAMBDA qids :
                 IF ~qids.ok THEN Err(qids.msg, <<>>) ELSE Ok(qids.qids)))

\* What walk makes of the RWALK payload `resp`: Result<Vec<Qid>, String>
WalkResult(resp, names) ==
    Bind(read_u16(resp, 0), LAMBDA nwqid :
        IF ~nwqid.ok THEN Err(nwqid.msg, <<>>)
        ELSE IF nwqid.val < Len(names) THEN Err("walk failed", <<>>)
        ELSE Bind(ReadQids(resp, nwqid.off, nwqid.val, <<>>), LAMBDA qids :
                 IF ~qids.ok THEN Err(qids.msg, <<>>) ELSE Ok(qids.qids)))

walk(nt, fid, new_fid, names, reply) ==
    Bind(alloc_tag(nt), LAMBDA a :
    Bind(finish(PushNames(push_u16(push_u32(push_u32(Message_new(TWALK, a.tag), fid),
                                            new_fid), Len(names) % 65536), names)),
         LAMBDA req :
    Bind(send_recv(req, RWALK, a.tag, reply), LAMBDA r :
        Xchg(a.next, req, r, IF ~r.ok THEN r ELSE WalkResult(r.val, names)))))

\* walk_path: the exchange of walk plus the allocated fid, the advanced
\* next_fid and is_dir; res is Ok(<<>>) or the walk's error.
\* `qids.last().map(|qid| (qid.qtype & 0x80) != 0).unwrap_or(true)`
LastIsDir(qids) ==
    IF Len(qids) = 0 THEN TRUE ELSE (qids[Len(qids)].type_ \div 128) % 2 = 1

walk_path(nt, nf, path, reply) ==
    Bind(alloc_fid(nf), LAMBDA f :
    Bind(walk(nt, root_fid, f.fid, path_parts(path), reply), LAMBDA w :
        [next_tag |-> w.next_tag, next_fid |-> f.next, req |-> w.req, raw |-> w.raw,
         res |-> IF w.res.ok THEN Ok(<<>>) ELSE w.res,
         fid |-> f.fid, is_dir |-> w.res.ok /\ LastIsDir(w.res.val)]))

\* The mount tag the session was constructed with ("fs").
MountTag == <<102, 115>>

\* send_tversion: the exchange (tag NO_TAG, no allocation), the echoed
\* version in res.val, and the session msize after the call.
\* A variant of ClampMsize that takes the server's msize as it is.
ClampMsizeNone(rmsize) == rmsize

\* `msize.max(256)`
ClampMsize(rmsize) == U32Max(rmsize, U32(256))

\* What send_tversion makes of the RVERSION payload: [res, msize]
VersionResult(resp, m) ==
    Bind(read_u32(resp, 0), LAMBDA rmsize :
        IF ~rmsize.ok THEN [res |-> Err(rmsize.msg, <<>>), msize |-> m]
        ELSE Bind(read_str(resp, rmsize.off), LAMBDA rversion :
                 IF ~rversion.ok THEN [res |-> Err(rversion.msg, <<>>), msize |-> m]
                 ELSE [res |-> Ok(rversion.val), msize |-> ClampMsize(rmsize.val)]))

send_tversion(nt, m, version, reply) ==
    Bind(finish(push_str(push_u32(Message_new(TVERSION, NO_TAG), m), version)), LAMBDA req :
    Bind(send_recv(req, RVERSION, NO_TAG, reply), LAMBDA r :
    Bind(IF r.ok THEN VersionResult(r.val, m) ELSE [res |-> r, msize |-> m], LAMBDA v :
        [next_tag |-> nt, req |-> req, raw |-> r, res |-> v.res, msize |-> v.msize])))

send_tattach(nt, version, reply) ==
    LET a == alloc_tag(nt)
        m0 == push_str(push_str(push_u32(push_u32(Message_new(TATTACH, a.tag), root_fid),
                                         NO_FID), StrRoot), MountTag)
        msg == IF is_dotl(version) THEN push_u32(m0, U32(0)) ELSE m0
    IN  UnitExchange(a, msg, RATTACH, reply)

\* A variant of open_with_flags that sends TOPEN in every dialect.
open_with_flags_legacy(nt, version, fid, mode_9p, mode_dotl, reply) ==
    LET a == alloc_tag(nt)
    IN  UnitExchange(a, push_u8(push_u32(Message_new(TOPEN, a.tag), fid), mode_9p),
                     ROPEN, reply)

open_with_flags(nt, version, fid, mode_9p, mode_dotl, reply) ==
    LET a == alloc_tag(nt)
    IN  IF is_dotl(version)
        THEN UnitExchange(a, push_u32(push_u32(Message_new(TLOPEN, a.tag), fid), mode_dotl),
                          RLOPEN, reply)
        ELSE UnitExchange(a, push_u8(push_u32(Message_new(TOPEN, a.tag), fid), mode_9p),
                          ROPEN, reply)

create(nt, fid, name, mode, perm, reply) ==
    LET a == alloc_tag(nt)
    IN  UnitExchange(a, push_u8(push_u32(push_str(push_u32(Message_new(TCREATE, a.tag), fid),
                                                  name), perm), mode),
                     RCREATE, reply)

lcreate(nt, fid, name, flags, mode, gid, reply) ==
    LET a == alloc_tag(nt)
    IN  UnitExchange(a, push_u32(push_u32(push_u32(push_str(
                            push_u32(Message_new(TLCREATE, a.tag), fid), name), flags),
                            mode), gid),
                     RLCREATE, reply)

mkdir(nt, fid, name, perm, gid, reply) ==
    LET a == alloc_tag(nt)
    IN  UnitExchange(a, push_u32(push_u32(push_str(push_u32(Message_new(TMKDIR, a.tag), fid),
                                                   name), perm), gid),
                     RMKDIR, reply)

clunk(nt, fid, reply) ==
    LET a == alloc_tag(nt)
    IN  UnitExchange(a, push_u32(Message_new(TCLUNK, a.tag), fid), RCLUNK, reply)

\* `offset + data_len > resp.len()` for the u32 data_len read at offset 0
DataTooLong(resp, data_len) == data_len.hi > 0 \/ 4 + data_len.lo > Len(resp)

\* The request frame shared by read, readdir and readdir_entries.
ReadFrame(type, tag, fid, offset, count) ==
    finish(push_u32(push_u64(push_u32(Message_new(type, tag), fid), offset), count))

\* read: res.val is the data
\* The counted data of an RREAD / RREADDIR payload, or the error `short`.
CountedData(resp, short) ==
    Bind(read_u32(resp, 0), LAMBDA data_len :
        IF ~data_len.ok THEN Err(data_len.msg, <<>>)
        ELSE IF DataTooLong(resp, data_len.val) THEN Err(short, <<>>)
        ELSE Ok(SubSeq(resp, 5, 4 + data_len.val.lo)))

\* One TREAD / TREADDIR exchange; res.val is the counted data.
ReadExchange(nt, type, expect, fid, offset, count, reply, short) ==
    Bind(alloc_tag(nt), LAMBDA a :
    Bind(ReadFrame(type, a.tag, fid, offset, count), LAMBDA req :
    Bind(send_recv(req, expect, a.tag, reply), LAMBDA r :
        Xchg(a.next, req, r, IF ~r.ok THEN r ELSE CountedData(r.val, short)))))

read(nt, fid, offset, count, reply) ==
    ReadExchange(nt, TREAD, RREAD, fid, offset, count, reply, "short read response")

\* readdir: res.val is [entries, last] with entries the names
ParsedEntries(parsed) ==
    Bind(parsed, LAMBDA p :
        IF ~p.ok THEN Err(p.msg, <<>>)
        ELSE Ok([entries |-> p.entries, last |-> p.last]))

readdir(nt, fid, offset, count, reply) ==
    Bind(ReadExchange(nt, TREADDIR, RREADDIR, fid, offset, count, reply,
                      "short readdir response"), LAMBDA x :
        IF ~x.res.ok THEN x
        ELSE [x EXCEPT !.res = ParsedEntries(parse_dir_entries_l(x.res.val))])

\* readdir_entries: res.val is [entries, last] with entries [name, entry_type]
readdir_entries(nt, fid, offset, count, reply) ==
    Bind(ReadExchange(nt, TREADDIR, RREADDIR, fid, offset, count, reply,
                      "short readdir response"), LAMBDA x :
        IF ~x.res.ok THEN x
        ELSE [x EXCEPT !.res = ParsedEntries(ParseDirentLoop(x.res.val, 0, <<>>, <<>>))])

\* write: res.val is <<wrote>>; `data.len() as u32` for data shorter than 2^31
write(nt, fid, offset, data, reply) ==
    Bind(alloc_tag(nt), LAMBDA a :
    Bind(finish(push_bytes(push_u32(push_u64(push_u32(Message_new(TWRITE, a.tag), fid),
                                             offset), U32(Len(data))), data)), LAMBDA req :
    Bind(send_recv(req, RWRITE, a.tag, reply), LAMBDA r :
        Xchg(a.next, req, r,
             IF ~r.ok THEN r
             ELSE Bind(read_u32(r.val, 0), LAMBDA wrote :
                      IF ~wrote.ok THEN Err(wrote.msg, <<>>)
                      ELSE Ok(<<wrote.val>>))))))

\* The ten-field TSETATTR frame shared by setattr_size and setattr_mode.
SetattrMsg(tag, fid, valid, mode, size) ==
    push_u64(push_u64(push_u64(push_u64(push_u64(push_u32(push_u32(push_u32(push_u32(
        push_u32(Message_new(TSETATTR, tag), fid), valid), mode), U32(0)), U32(0)),
        size), U64(0)), U64(0)), U64(0)), U64(0))

setattr_size(nt, fid, size, reply) ==
    LET a == alloc_tag(nt)
    IN  UnitExchange(a, SetattrMsg(a.tag, fid, P9_ATTR_SIZE, U32(0), size), RSETATTR, reply)

(***************************************************************************)
(* Inputs: bounds, the caller's arguments and the transport's replies      *)
(***************************************************************************)
\* Public calls made in one run.
MaxOps == 3
\* Long runs of failing calls (ensure_dir_run) taken in one run.
MaxRuns == 1
\* TREAD / TREADDIR exchanges of one listing that may return data.
MaxChunks == 2

\* "/" and "/a/b"
Paths == {<<SLASH>>, <<SLASH, 97, SLASH, 98>>}

TransportErr == [terr |-> TRUE, buf |-> <<>>]
Rep(buf) == [terr |-> FALSE, buf |-> buf]

\* A reply frame as a server builds it.
Frame(type, tag, payload) == finish(Message_new(type, tag) \o payload)

OtherTag(tag) == (tag + 1) % 65536
OtherType(expect) == IF expect = RCLUNK THEN RWALK ELSE RCLUNK

\* Replies that make send_recv fail: transport error, a reply shorter than
\* the header, RERROR (well-formed, malformed, with a foreign tag), RLERROR
\* (well-formed, short), a foreign type, the expected type with a foreign tag.
BadReplies(expect, tag) ==
    { TransportErr,
      Rep(<<6, 0, 0, 0, expect, tag % 256>>),
      Rep(Frame(RERROR, tag, <<1, 0, 101>>)),
      Rep(Frame(RERROR, tag, <<5, 0, 101>>)),
      Rep(Frame(RERROR, OtherTag(tag), <<1, 0, 101>>)),
      Rep(Frame(RLERROR, tag, U32Bytes(U32(2)))),
      Rep(Frame(RLERROR, tag, <<2>>)),
      Rep(Frame(OtherType(expect), tag, <<>>)),
      Rep(Frame(OtherType(expect), OtherTag(tag), <<>>)),
      Rep(Frame(expect, OtherTag(tag), <<>>)) }

\* The replies to a request with tag `tag` expecting `expect`, the
\* well-typed ones carrying a payload of `payloads`.
RepliesTo(expect, tag, payloads) ==
    BadReplies(expect, tag) \cup { Rep(Frame(expect, tag, p)) : p \in payloads }

\* The replies to the request the next alloc_tag call will tag.
Replies(expect, payloads) == RepliesTo(expect, alloc_tag(next_tag).tag, payloads)

\* A smaller choice for the later exchanges of a call: transport error,
\* RLERROR, and the well-typed replies.
FewReplies(expect, payloads) ==
    LET tag == alloc_tag(next_tag).tag
    IN  { TransportErr, Rep(Frame(RLERROR, tag, U32Bytes(U32(2)))) }
        \cup { Rep(Frame(expect, tag, p)) : p \in payloads }

\* qid payloads: a directory (type 0x80) and a regular file (type 0)
QidDir == <<128, 0, 0, 0, 0, 1, 0, 0, 0, 0, 0, 0, 0>>
QidFile == <<0, 0, 0, 0, 0, 2, 0, 0, 0, 0, 0, 0, 0>>

RECURSIVE Repeat(_, _)
Repeat(x, n) == IF n = 0 THEN <<>> ELSE x \o Repeat(x, n - 1)

\* RWALK payloads for a walk of n names: all n qids ending in a directory or
\* in a file, one qid too few, the count with its qids cut off, nothing.
WalkPayloads(n) ==
    { <<n % 256, n \div 256>> \o Repeat(QidDir, n),
      <<n % 256, n \div 256>> \o Repeat(QidDir, Max(n - 1, 0))
                              \o (IF n > 0 THEN QidFile ELSE <<>>),
      <<Max(n, 1) % 256, Max(n, 1) \div 256>> \o SubSeq(QidDir, 1, 5),
      <<>> }
    \cup (IF n > 0 THEN { <<(n - 1) % 256, (n - 1) \div 256>> \o Repeat(QidDir, n - 1) }
          ELSE {})

\* The replies to the walk of `path`: every kind for ensure_dir, the smaller
\* choice for the other operations.
AllWalkReplies(path) == Replies(RWALK, WalkPayloads(Len(path_parts(path))))
WalkReplies(path) == FewReplies(RWALK, WalkPayloads(Len(path_parts(path))))

\* RVERSION payloads: msize 0, 8192 with a known or unknown version string,
\* and payloads that do not parse (short msize, cut string, invalid UTF-8).
VersionStrings ==
    { Str9P2000L, <<57, 112, 50, 48, 48, 48, 46, 117>>, <<57, 80, 50, 48, 48, 48>>,
      StrUnknown }
VersionPayloads ==
    { U32Bytes(U32(8192)) \o <<Len(v), 0>> \o v : v \in VersionStrings }
    \cup { U32Bytes(U32(0)) \o <<Len(v), 0>> \o v : v \in {Str9P2000L, StrUnknown} }
    \cup { <<0, 32>>, U32Bytes(U32(8192)) \o <<9, 0, 57>>,
           U32Bytes(U32(8192)) \o <<1, 0, 255>> }

(***************************************************************************)
(* Bookkeeping shared by the actions                                       *)
(***************************************************************************)
Loc0 ==
    [fid |-> U32(0), dfid |-> U32(0), name |-> <<>>, path2 |-> <<>>,
     mode_9p |-> 0, mode_dotl |-> U32(0), perm |-> U32(0),
     offset |-> U64(0), names |-> <<>>, chunks |-> 0,
     clunks |-> <<>>, strict |-> FALSE, pending |-> Ok(<<>>)]

Running == Err("(running)", <<>>)

Entry(x, reply) == [req |-> x.req, rep |-> reply, res |-> x.raw]

FrameType(req) == req[5]
FrameTag(req) == req[6] + 256 * req[7]

\* A variant of Call that lets a call start while another is running.
CallAnytime(name) == nops < MaxOps /\ op' = name /\ nops' = nops + 1

\* The public call `name` starts: a fresh log and fresh per-call observations.
Call(name) == pc = "idle" /\ nops < MaxOps /\ op' = name /\ nops' = nops + 1

\* The first / a later exchange of the call.
First(x, reply) ==
    /\ log' = <<Entry(x, reply)>>
    /\ next_tag' = x.next_tag
    /\ last_tag' = IF FrameType(x.req) = TVERSION THEN last_tag ELSE FrameTag(x.req)

Later(x, reply) ==
    /\ log' = Append(log, Entry(x, reply))
    /\ next_tag' = x.next_tag
    /\ last_tag' = IF FrameType(x.req) = TVERSION THEN last_tag ELSE FrameTag(x.req)

\* The call returns r; the caller has it in hand at pc = "done".
Return(r) == pc' = "done" /\ result' = r /\ loc' = Loc0

\* The call goes on at `label` with locals l.
Goto(label, l) == pc' = label /\ result' = Running /\ loc' = l

\* The call goes on with `self.clunk(f)?` (strict) or `let _ = self.clunk(f)`
\* for each f of fids in turn, and then returns `pending`.
ThenClunk(fids, strict, pending) ==
    Goto("clunk", [Loc0 EXCEPT !.clunks = fids, !.strict = strict, !.pending = pending])

\* A call that returns before its first exchange.
ReturnAtOnce(name, r) ==
    /\ Call(name)
    /\ Return(r)
    /\ log' = <<>>
    /\ allocd' = <<>>
    /\ walked' = {}
    /\ UNCHANGED <<session, held, last_tag, nruns>>

\* The first walk_path of a call: w is its outcome.
FirstWalk(w, reply) ==
    /\ First(w, reply)
    /\ next_fid' = w.next_fid
    /\ allocd' = <<w.fid>>
    /\ walked' = IF w.res.ok THEN {w.fid} ELSE {}

(***************************************************************************)
(* session.rs: the public operations                                       *)
(***************************************************************************)
Init ==
    /\ msize = DEFAULT_MSIZE
    /\ next_tag = 1
    /\ next_fid = U32(2)
    /\ p9_version = "Unknown"
    /\ pc = "idle"
    /\ op = "none"
    /\ loc = Loc0
    /\ log = <<>>
    /\ result = Ok(<<>>)
    /\ allocd = <<>>
    /\ walked = {}
    /\ held = {}
    /\ last_tag = 0
    /\ nops = 0
    /\ nruns = 0

\* A variant of VersionRound that takes the server's msize only with a
\* version string it accepts.
VersionRoundKeepMsize(v, more) ==
    /\ IF ~v.res.ok THEN Return(v.res) /\ p9_version' = p9_version /\ msize' = msize
       ELSE IF from_str(v.res.val) # "None"
       THEN p9_version' = from_str(v.res.val) /\ Goto("attach", Loc0) /\ msize' = v.msize
       ELSE /\ p9_version' = p9_version
            /\ msize' = msize
            /\ IF more THEN Goto("version2", Loc0)
               ELSE Return(Err("unsupported 9p version: ", v.res.val))

\* One iteration of negotiate's loop over the candidates, v being what
\* send_tversion gave; `more` says whether another candidate follows.
\* A variant of VersionRound that goes on to the next candidate when the
\* exchange for a candidate failed.
VersionRoundFallback(v, more) ==
    /\ msize' = v.msize
    /\ IF ~v.res.ok
       THEN /\ p9_version' = p9_version
            /\ IF more THEN Goto("version2", Loc0) ELSE Return(v.res)
       ELSE IF from_str(v.res.val) # "None"
       THEN p9_version' = from_str(v.res.val) /\ Goto("attach", Loc0)
       ELSE /\ p9_version' = p9_version
            /\ IF more THEN Goto("version2", Loc0)
               ELSE Return(Err("unsupported 9p version: ", v.res.val))

VersionRound(v, more) ==
    /\ msize' = v.msize
    /\ IF ~v.res.ok THEN Return(v.res) /\ p9_version' = p9_version
       ELSE IF from_str(v.res.val) # "None"
       THEN p9_version' = from_str(v.res.val) /\ Goto("attach", Loc0)
       ELSE /\ p9_version' = p9_version
            /\ IF more THEN Goto("version2", Loc0)
               ELSE Return(Err("unsupported 9p version: ", v.res.val))

\* negotiate: the call and the first candidate
negotiate ==
    /\ Call("negotiate")
    /\ \E reply \in RepliesTo(RVERSION, NO_TAG, VersionPayloads) :
       \E v \in {send_tversion(next_tag, msize, Str9P2000L, reply)} :
        /\ First(v, reply)
        /\ VersionRound(v, TRUE)
        /\ allocd' = <<>>
        /\ walked' = {}
        /\ UNCHANGED <<next_fid, held, nruns>>

\* negotiate: the second candidate
negotiate_second ==
    /\ pc = "version2"
    /\ \E reply \in RepliesTo(RVERSION, NO_TAG, VersionPayloads) :
       \E v \in {send_tversion(next_tag, msize, Str9P2000u, reply)} :
        /\ Later(v, reply)
        /\ VersionRound(v, FALSE)
        /\ UNCHANGED <<next_fid, op, allocd, walked, held, nops, nruns>>

\* negotiate: `self.send_tattach()?; return Ok(())`
negotiate_attach ==
    /\ pc = "attach"
    /\ \E reply \in FewReplies(RATTACH, {QidDir}) :
       \E a \in {send_tattach(next_tag, p9_version, reply)} :
        /\ Later(a, reply)
        /\ Return(a.res)
        /\ UNCHANGED <<msize, next_fid, p9_version, op, allocd, walked, held, nops, nruns>>

\* The trailing clunks of a call (see ThenClunk).
clunk_step ==
    /\ pc = "clunk"
    /\ \E reply \in FewReplies(RCLUNK, {<<>>}) :
       \E c \in {clunk(next_tag, Head(loc.clunks), reply)} :
        /\ Later(c, reply)
        /\ IF loc.strict /\ ~c.res.ok THEN Return(c.res)
           ELSE IF Tail(loc.clunks) = <<>> THEN Return(loc.pending)
           ELSE Goto("clunk", [loc EXCEPT !.clunks = Tail(loc.clunks)])
        /\ UNCHANGED <<msize, next_fid, p9_version, op, allocd, walked, held, nops, nruns>>

\* The body of ensure_dir from the session counters nt, nf.
EnsureDirFrom(nt, nf, path, reply) ==
    /\ Call("ensure_dir")
    /\ \E w \in {walk_path(nt, nf, path, reply)} :
        /\ FirstWalk(w, reply)
        /\ IF ~w.res.ok THEN Return(w.res)
           ELSE ThenClunk(<<w.fid>>, TRUE,
                          IF w.is_dir THEN Ok(<<>>) ELSE Err("not a directory", <<>>))
        /\ UNCHANGED <<msize, p9_version, held>>

ensure_dir ==
    \E path \in Paths : \E reply \in AllWalkReplies(path) :
        EnsureDirFrom(next_tag, next_fid, path, reply) /\ nruns' = nruns

\* next_tag after k further alloc_tag calls (k < 65535): the returned tags
\* cycle through 1 .. 0xFFFE, 0 and next_tag is the tag returned next, held
\* as 0xFFFF when that tag is 0.
TagAdvance(nt, k) ==
    LET r == IF nt = NO_TAG THEN 0 ELSE nt
        r2 == (r + k) % 65535
    IN  IF k = 0 THEN nt ELSE IF r2 = 0 THEN NO_TAG ELSE r2

\* 2^32 - 2 calls, 65531 of them with a successful walk and clunk
RunCalls == [hi |-> 65535, lo |-> 65534]
RunWalked == 65531

\* A run of 2^32 - 1 consecutive ensure_dir calls.  Of the first RunCalls
\* calls, RunWalked have their walk and their clunk answered (one fid, two
\* tags each) and the others fail in the transport at the walk (one fid, one
\* tag each); they are taken in one stride.  The last call is an ordinary
\* call whose walk the transport fails.
ensure_dir_run ==
    \E path \in Paths :
        /\ nruns < MaxRuns
        /\ nruns' = nruns + 1
        /\ EnsureDirFrom(TagAdvance(next_tag,
                                    (RunCalls.hi + RunCalls.lo + RunWalked) % 65535),
                         U32WrappingAdd(next_fid, RunCalls), path, TransportErr)

\* The caller takes the returned value; a fid returned by
\* open_path_with_flags or create_file_with_flags is the caller's from now on.
take_result ==
    /\ pc = "done"
    /\ pc' = "idle"
    /\ held' = IF result.ok /\ op \in {"open_path_with_flags", "create_file",
                                        "create_file_with_flags"}
               THEN held \cup {result.val} ELSE held
    /\ op' = "none"
    /\ log' = <<>>
    /\ result' = Ok(<<>>)
    /\ allocd' = <<>>
    /\ walked' = {}
    /\ UNCHANGED <<session, loc, last_tag, nops, nruns>>

(***************************************************************************)
(* Directory listings                                                      *)
(***************************************************************************)
\* A 9P2000.L dirent: qid, offset, type, name
Dirent(name, offset, type) ==
    QidFile \o U64Bytes(U64(offset)) \o <<type>> \o <<Len(name), 0>> \o name

\* A 9P2000 stat record for `name` with empty uid, gid and muid, behind its
\* u16 size.
Stat(name) ==
    LET body == <<0, 0>> \o <<0, 0, 0, 0>> \o QidFile \o <<0, 0, 0, 0>> \o <<0, 0, 0, 0>>
                \o <<0, 0, 0, 0>> \o <<0, 0, 0, 0, 0, 0, 0, 0>>
                \o <<Len(name), 0>> \o name \o <<0, 0, 0, 0, 0, 0>>
    IN  <<Len(body) % 256, Len(body) \div 256>> \o body

\* count[4] data[count]
Counted(data) == U32Bytes(U32(Len(data))) \o data

\* RREADDIR payloads: [a@1, b@2], [.@3], [..@3, c@4], a record cut short, no
\* entries; a count larger than the data; a payload too short for the count.
ReaddirData ==
    { Dirent(<<97>>, 1, 8) \o Dirent(<<98>>, 2, 4),
      Dirent(<<DOT>>, 3, 4),
      Dirent(<<DOT, DOT>>, 3, 4) \o Dirent(<<99>>, 4, 8),
      SubSeq(Dirent(<<97>>, 1, 8), 1, 20) }
ReaddirPayloads(more) ==
    { Counted(<<>>), U32Bytes(U32(9)) \o <<1>>, <<1, 0>> }
    \cup (IF more THEN { Counted(d) : d \in ReaddirData } ELSE {})

\* RREAD payloads for a directory: stats of "a", "." and "..", a stat of "a"
\* followed by a cut one, a stat shorter than its fixed fields, no data; a
\* count larger than the data.
StatData ==
    { Stat(<<97>>) \o Stat(<<DOT>>) \o Stat(<<DOT, DOT>>),
      Stat(<<97>>) \o SubSeq(Stat(<<98>>), 1, 12),
      <<3, 0, 1, 2, 3>> }
StatPayloads(more) ==
    { Counted(<<>>), U32Bytes(U32(9)) \o <<1>> }
    \cup (IF more THEN { Counted(d) : d \in StatData } ELSE {})

\* A later walk_path of a call.
LaterWalk(w, reply) ==
    /\ Later(w, reply)
    /\ next_fid' = w.next_fid
    /\ allocd' = Append(allocd, w.fid)
    /\ walked' = IF w.res.ok THEN walked \cup {w.fid} ELSE walked

\* What a continuation step leaves alone besides what its exchange changes.
StepFrame == UNCHANGED <<msize, next_fid, p9_version, op, allocd, walked, held, nops, nruns>>

\* list_dir and list_dir_entries up to the open: the walk and the
\* directory check.
ListCall(name) ==
    /\ Call(name)
    /\ \E path \in Paths : \E reply \in WalkReplies(path) :
       \E w \in {walk_path(next_tag, next_fid, path, reply)} :
        /\ FirstWalk(w, reply)
        /\ IF ~w.res.ok THEN Return(w.res)
           ELSE IF ~w.is_dir
           THEN ThenClunk(<<w.fid>>, TRUE, Err("not a directory", <<>>))
           ELSE Goto("open", [Loc0 EXCEPT !.fid = w.fid])
        /\ UNCHANGED <<msize, p9_version, held, nruns>>

\* `self.open_with_flags(fid, OREAD, P9_DOTL_RDONLY)?`
ListOpen(name) ==
    /\ pc = "open" /\ op = name
    /\ \E reply \in FewReplies(IF is_dotl(p9_version) THEN RLOPEN ELSE ROPEN, {QidDir}) :
       \E o \in {open_with_flags(next_tag, p9_version, loc.fid, OREAD, P9_DOTL_RDONLY,
                                 reply)} :
        /\ Later(o, reply)
        /\ IF ~o.res.ok THEN Return(o.res) ELSE Goto("loop", loc)
        /\ StepFrame

\* A variant of ListBreak that returns without the clunk.
ListBreakNoClunk(names) == Return(Ok(names))

\* After the loop: `self.clunk(fid)?; Ok(names)`
ListBreak(names) == ThenClunk(<<loc.fid>>, TRUE, Ok(names))

\* A variant of ListLoopDotl that follows every Some(next), greater or not.
ListLoopDotlAlways(r) ==
    IF ~r.res.ok THEN Return(r.res)
    ELSE IF r.res.val.entries = <<>> THEN ListBreak(loc.names)
    ELSE IF r.res.val.last # <<>>
    THEN Goto("loop", [loc EXCEPT !.names = loc.names \o r.res.val.entries,
                                  !.offset = r.res.val.last[1],
                                  !.chunks = loc.chunks + 1])
    ELSE ListBreak(loc.names \o r.res.val.entries)

\* One iteration of the 9P2000.L branch of the loop, r being what readdir or
\* readdir_entries gave.
ListLoopDotl(r) ==
    IF ~r.res.ok THEN Return(r.res)
    ELSE IF r.res.val.entries = <<>> THEN ListBreak(loc.names)
    ELSE IF r.res.val.last # <<>> /\ U64Greater(r.res.val.last[1], loc.offset)
    THEN Goto("loop", [loc EXCEPT !.names = loc.names \o r.res.val.entries,
                                  !.offset = r.res.val.last[1],
                                  !.chunks = loc.chunks + 1])
    ELSE ListBreak(loc.names \o r.res.val.entries)

\* An element of the legacy branch's result: the name for list_dir, a
\* DirEntry with entry_type 0 for list_dir_entries.
LegacyEntry(typed, name) == IF typed THEN [name |-> name, entry_type |-> 0] ELSE name

\* A variant of ListLoopLegacy that leaves the cursor where it is.
ListLoopLegacyNoAdvance(r, typed) ==
    IF ~r.res.ok THEN Return(r.res)
    ELSE IF r.res.val = <<>> THEN ListBreak(loc.names)
    ELSE \E parsed \in {parse_dir_entries(r.res.val, <<>>)} :
            IF ~parsed.ok THEN Return(Err(parsed.msg, <<>>))
            ELSE Goto("loop",
                      [loc EXCEPT !.names = loc.names \o
                                      [i \in 1..Len(parsed.names) |-> LegacyEntry(typed, parsed.names[i])],
                                  !.chunks = loc.chunks + 1])

\* One iteration of the legacy branch, r being what read gave.
ListLoopLegacy(r, typed) ==
    IF ~r.res.ok THEN Return(r.res)
    ELSE IF r.res.val = <<>> THEN ListBreak(loc.names)
    ELSE \E parsed \in {parse_dir_entries(r.res.val, <<>>)} :
            IF ~parsed.ok THEN Return(Err(parsed.msg, <<>>))
            ELSE Goto("loop",
                      [loc EXCEPT !.names = loc.names \o
                                      [i \in 1..Len(parsed.names) |-> LegacyEntry(typed, parsed.names[i])],
                                  !.offset = U64AddNat(loc.offset, Len(r.res.val)),
                                  !.chunks = loc.chunks + 1])

\* list_dir
list_dir == ListCall("list_dir")

list_dir_open == ListOpen("list_dir")

list_dir_loop ==
    /\ pc = "loop" /\ op = "list_dir"
    /\ IF is_dotl(p9_version)
       THEN \E reply \in FewReplies(RREADDIR, ReaddirPayloads(loc.chunks < MaxChunks)) :
            \E r \in {readdir(next_tag, loc.fid, loc.offset, U32SubSmall(msize, 64), reply)} :
                Later(r, reply) /\ ListLoopDotl(r)
       ELSE \E reply \in FewReplies(RREAD, StatPayloads(loc.chunks < MaxChunks)) :
            \E r \in {read(next_tag, loc.fid, loc.offset, U32SubSmall(msize, 64), reply)} :
                Later(r, reply) /\ ListLoopLegacy(r, FALSE)
    /\ StepFrame

\* list_dir_entries
list_dir_entries == ListCall("list_dir_entries")

list_dir_entries_open == ListOpen("list_dir_entries")

list_dir_entries_loop ==
    /\ pc = "loop" /\ op = "list_dir_entries"
    /\ IF is_dotl(p9_version)
       THEN \E reply \in FewReplies(RREADDIR, ReaddirPayloads(loc.chunks < MaxChunks)) :
            \E r \in {readdir_entries(next_tag, loc.fid, loc.offset, U32SubSmall(msize, 64),
                                      reply)} :
                Later(r, reply) /\ ListLoopDotl(r)
       ELSE \E reply \in FewReplies(RREAD, StatPayloads(loc.chunks < MaxChunks)) :
            \E r \in {read(next_tag, loc.fid, loc.offset, U32SubSmall(msize, 64), reply)} :
                Later(r, reply) /\ ListLoopLegacy(r, TRUE)
    /\ StepFrame

(***************************************************************************)
(* Operations on a path's parent: create_dir, create_file, link, symlink   *)
(***************************************************************************)
\* The call leaves the session alone besides what its exchange changes.
CallFrame == UNCHANGED <<msize, p9_version, held, nruns>>

\* `return Err(..)` before the call's first exchange, inside a Call(..)
EarlyReturn(r) ==
    /\ Return(r)
    /\ log' = <<>>
    /\ allocd' = <<>>
    /\ walked' = {}
    /\ UNCHANGED <<session, held, last_tag, nruns>>

\* The opening shared by create_dir, create_file_with_flags, link and
\* symlink: split_parent_name(path)?, walk_path(parent)?, the directory
\* check; then on at `label` with the fid in l.fid (l.dfid when `as_dfid`)
\* and the leaf in l.name.
ParentCall(name, path, l, label, as_dfid) ==
    /\ Call(name)
    /\ \E sp \in {split_parent_name(path)} :
        IF ~sp.ok THEN EarlyReturn(Err(sp.msg, <<>>))
        ELSE \E reply \in WalkReplies(sp.parent) :
             \E w \in {walk_path(next_tag, next_fid, sp.parent, reply)} :
                /\ FirstWalk(w, reply)
                /\ IF ~w.res.ok THEN Return(w.res)
                   ELSE IF ~w.is_dir
                   THEN ThenClunk(<<w.fid>>, TRUE, Err("parent is not a directory", <<>>))
                   ELSE Goto(label, IF as_dfid THEN [l EXCEPT !.dfid = w.fid, !.name = sp.name]
                                    ELSE [l EXCEPT !.fid = w.fid, !.name = sp.name])
                /\ CallFrame

\* create_dir
create_dir == \E path \in Paths : ParentCall("create_dir", path, Loc0, "act", FALSE)

\* create_dir: mkdir or create, then `self.clunk(fid)?; Ok(())`
create_dir_act ==
    /\ pc = "act" /\ op = "create_dir"
    /\ IF is_dotl(p9_version)
       THEN \E reply \in FewReplies(RMKDIR, {QidDir}) :
            \E m \in {mkdir(next_tag, loc.fid, loc.name, DirPerm, U32(0), reply)} :
                /\ Later(m, reply)
                /\ IF ~m.res.ok THEN Return(m.res) ELSE ThenClunk(<<loc.fid>>, TRUE, Ok(<<>>))
       ELSE \E reply \in FewReplies(RCREATE, {QidDir}) :
            \E c \in {create(next_tag, loc.fid, loc.name, OREAD, DirPerm, reply)} :
                /\ Later(c, reply)
                /\ IF ~c.res.ok THEN Return(c.res) ELSE ThenClunk(<<loc.fid>>, TRUE, Ok(<<>>))
    /\ StepFrame

\* The (mode_9p, mode_dotl, perm) a caller of create_file_with_flags passes.
CreateFlags == { [mode_9p |-> OREAD, mode_dotl |-> P9_DOTL_RDONLY, perm |-> U32(384)] }

\* create_file: create_file_with_flags(path, ORDWR, P9_DOTL_RDWR | P9_DOTL_CREATE, 0o644)
create_file ==
    \E path \in Paths :
        ParentCall("create_file", path,
                   [Loc0 EXCEPT !.mode_9p = ORDWR,
                                !.mode_dotl = U32Or(P9_DOTL_RDWR, P9_DOTL_CREATE),
                                !.perm = U32(420)], "act", FALSE)

create_file_with_flags ==
    \E path \in Paths : \E f \in CreateFlags :
        ParentCall("create_file_with_flags", path,
                   [Loc0 EXCEPT !.mode_9p = f.mode_9p, !.mode_dotl = f.mode_dotl,
                                !.perm = f.perm], "act", FALSE)

\* create_file_with_flags: lcreate or create, then Ok(fid) or a best-effort
\* clunk and the error
create_file_act ==
    /\ pc = "act" /\ op \in {"create_file", "create_file_with_flags"}
    /\ IF is_dotl(p9_version)
       THEN \E reply \in FewReplies(RLCREATE, {QidFile \o <<0, 0, 0, 0>>}) :
            \E c \in {lcreate(next_tag, loc.fid, loc.name,
                              U32Or(loc.mode_dotl, P9_DOTL_CREATE), loc.perm, U32(0), reply)} :
                /\ Later(c, reply)
                /\ IF c.res.ok THEN Return(Ok(loc.fid))
                   ELSE ThenClunk(<<loc.fid>>, FALSE, c.res)
       ELSE \E reply \in FewReplies(RCREATE, {QidFile \o <<0, 0, 0, 0>>}) :
            \E c \in {create(next_tag, loc.fid, loc.name, loc.mode_9p, loc.perm, reply)} :
                /\ Later(c, reply)
                /\ IF c.res.ok THEN Return(Ok(loc.fid))
                   ELSE ThenClunk(<<loc.fid>>, FALSE, c.res)
    /\ StepFrame

\* link: up to the walk of the target
link ==
    \E target \in Paths : \E link_path \in Paths :
        ParentCall("link", link_path, [Loc0 EXCEPT !.path2 = target], "walk2", TRUE)

\* link: `let (fid, _is_dir) = self.walk_path(target)?`
link_walk2 ==
    /\ pc = "walk2" /\ op = "link"
    /\ \E reply \in WalkReplies(loc.path2) :
       \E w \in {walk_path(next_tag, next_fid, loc.path2, reply)} :
        /\ LaterWalk(w, reply)
        /\ IF ~w.res.ok THEN Return(w.res) ELSE Goto("act", [loc EXCEPT !.fid = w.fid])
    /\ UNCHANGED <<msize, p9_version, op, held, nops, nruns>>

\* link: the TLINK exchange and the two best-effort clunks
link_act ==
    /\ pc = "act" /\ op = "link"
    /\ \E reply \in FewReplies(RLINK, {<<>>}) :
       \E a \in {alloc_tag(next_tag)} :
       \E x \in {UnitExchange(a, push_str(push_u32(push_u32(Message_new(TLINK, a.tag), loc.fid),
                                                   loc.dfid), loc.name), RLINK, reply)} :
        /\ Later(x, reply)
        /\ ThenClunk(<<loc.fid, loc.dfid>>, FALSE, x.res)
    /\ StepFrame

\* The target text a caller of symlink passes ("t").
Targets == {<<116>>}

\* symlink: the gate, then up to the TSYMLINK exchange
symlink ==
    IF ~is_dotl(p9_version)
    THEN ReturnAtOnce("symlink", Err("symlink requires 9P2000.L", <<>>))
    ELSE \E target \in Targets : \E link_path \in Paths :
            ParentCall("symlink", link_path, [Loc0 EXCEPT !.path2 = target], "act", TRUE)

\* symlink: the TSYMLINK exchange and the best-effort clunk
symlink_act ==
    /\ pc = "act" /\ op = "symlink"
    /\ \E reply \in FewReplies(RSYMLINK, {QidFile}) :
       \E a \in {alloc_tag(next_tag)} :
       \E x \in {UnitExchange(a, push_u32(push_str(push_str(
                                  push_u32(Message_new(TSYMLINK, a.tag), loc.dfid),
                                  loc.name), loc.path2), U32(0)), RSYMLINK, reply)} :
        /\ Later(x, reply)
        /\ ThenClunk(<<loc.dfid>>, FALSE, x.res)
    /\ StepFrame

(***************************************************************************)
(* Operations on a path: open, read_link, remove, getattr, rename, setattr *)
(***************************************************************************)
\* The opening `let (fid, _) = self.walk_path(path)?` of a call; then on at
\* `label` with the fid in l.fid.
PathCall(name, path, l, label) ==
    /\ Call(name)
    /\ \E reply \in WalkReplies(path) :
       \E w \in {walk_path(next_tag, next_fid, path, reply)} :
        /\ FirstWalk(w, reply)
        /\ IF ~w.res.ok THEN Return(w.res) ELSE Goto(label, [l EXCEPT !.fid = w.fid])
        /\ CallFrame

\* The (mode_9p, mode_dotl) a caller of open_path_with_flags passes.
OpenFlags == { [mode_9p |-> OREAD, mode_dotl |-> P9_DOTL_RDONLY] }

open_path_with_flags ==
    \E path \in Paths : \E f \in OpenFlags :
        PathCall("open_path_with_flags", path,
                 [Loc0 EXCEPT !.mode_9p = f.mode_9p, !.mode_dotl = f.mode_dotl], "open")

\* A variant of open_path_open whose clunk is `self.clunk(fid)?`.
open_path_open_strict ==
    /\ pc = "open" /\ op = "open_path_with_flags"
    /\ \E reply \in FewReplies(IF is_dotl(p9_version) THEN RLOPEN ELSE ROPEN, {QidFile}) :
       \E o \in {open_with_flags(next_tag, p9_version, loc.fid, loc.mode_9p, loc.mode_dotl,
                                 reply)} :
        /\ Later(o, reply)
        /\ IF o.res.ok THEN Return(Ok(loc.fid)) ELSE ThenClunk(<<loc.fid>>, TRUE, o.res)
    /\ StepFrame

\* open_path_with_flags: the open, then Ok(fid) or a best-effort clunk and
\* the error
open_path_open ==
    /\ pc = "open" /\ op = "open_path_with_flags"
    /\ \E reply \in FewReplies(IF is_dotl(p9_version) THEN RLOPEN ELSE ROPEN, {QidFile}) :
       \E o \in {open_with_flags(next_tag, p9_version, loc.fid, loc.mode_9p, loc.mode_dotl,
                                 reply)} :
        /\ Later(o, reply)
        /\ IF o.res.ok THEN Return(Ok(loc.fid)) ELSE ThenClunk(<<loc.fid>>, FALSE, o.res)
    /\ StepFrame

\* Result<String, String> of a reader result
OfRead(r) == IF r.ok THEN Ok(r.val) ELSE Err(r.msg, <<>>)

read_link == \E path \in Paths : PathCall("read_link", path, Loc0, "act")

\* read_link: the TREADLINK exchange, read_str of the payload, the
\* best-effort clunk
read_link_act ==
    /\ pc = "act" /\ op = "read_link"
    /\ \E reply \in FewReplies(RREADLINK, {<<1, 0, 116>>, <<5, 0, 116>>}) :
       \E a \in {alloc_tag(next_tag)} :
       \E x \in {PayloadExchange(a, push_u32(Message_new(TREADLINK, a.tag), loc.fid),
                                 RREADLINK, reply)} :
        /\ Later(x, reply)
        /\ ThenClunk(<<loc.fid>>, FALSE,
                     IF x.res.ok THEN OfRead(read_str(x.res.val, 0)) ELSE x.res)
    /\ StepFrame

remove_path == \E path \in Paths : PathCall("remove_path", path, Loc0, "act")

\* A variant of remove_path_act that clunks the fid after every TREMOVE.
remove_path_act_clunking ==
    /\ pc = "act" /\ op = "remove_path"
    /\ \E reply \in FewReplies(RREMOVE, {<<>>}) :
       \E a \in {alloc_tag(next_tag)} :
       \E x \in {UnitExchange(a, push_u32(Message_new(TREMOVE, a.tag), loc.fid),
                              RREMOVE, reply)} :
        /\ Later(x, reply)
        /\ ThenClunk(<<loc.fid>>, FALSE, x.res)
    /\ StepFrame

\* remove_path: the TREMOVE exchange; Ok(()) or a best-effort clunk and the
\* error
remove_path_act ==
    /\ pc = "act" /\ op = "remove_path"
    /\ \E reply \in FewReplies(RREMOVE, {<<>>}) :
       \E a \in {alloc_tag(next_tag)} :
       \E x \in {UnitExchange(a, push_u32(Message_new(TREMOVE, a.tag), loc.fid),
                              RREMOVE, reply)} :
        /\ Later(x, reply)
        /\ IF x.res.ok THEN Return(Ok(<<>>)) ELSE ThenClunk(<<loc.fid>>, FALSE, x.res)
    /\ StepFrame

\* `for _ in 0..n { read_u32(..)? }` and the same for read_u64: [ok, vals, off, msg]
RECURSIVE ReadMany(_, _, _, _, _)
ReadMany(wide, buf, offset, n, vals) ==
    IF n = 0 THEN [ok |-> TRUE, vals |-> vals, off |-> offset, msg |-> ""]
    ELSE Bind(IF wide THEN read_u64(buf, offset) ELSE read_u32(buf, offset), LAMBDA v :
             IF ~v.ok THEN [ok |-> FALSE, vals |-> vals, off |-> offset, msg |-> v.msg]
             ELSE ReadMany(wide, buf, v.off, n - 1, Append(vals, v.val)))

\* The body of getattr's `Ok(resp) =>` arm up to its value: [ok, val, msg],
\* ~ok being a `?` that leaves getattr.
FileAttrOf(resp) ==
    Bind(read_u64(resp, 0), LAMBDA valid :
        IF ~valid.ok THEN Err(valid.msg, <<>>)
        ELSE Bind(read_qid(resp, valid.off), LAMBDA qid :
        IF ~qid.ok THEN Err(qid.msg, <<>>)
        \* mode, uid, gid
        ELSE Bind(ReadMany(FALSE, resp, qid.off, 3, <<>>), LAMBDA w :
        IF ~w.ok THEN Err(w.msg, <<>>)
        \* nlink, rdev, size, blksize, blocks, atime_sec, atime_nsec,
        \* mtime_sec, mtime_nsec, ctime_sec
        ELSE Bind(ReadMany(TRUE, resp, w.off, 10, <<>>), LAMBDA d :
        IF ~d.ok THEN Err(d.msg, <<>>)
        ELSE Ok([qid_type |-> qid.val.type_, mode |-> w.vals[1], uid |-> w.vals[2],
                 gid |-> w.vals[3], nlink |-> d.vals[1], size |-> d.vals[3],
                 atime_sec |-> d.vals[6], mtime_sec |-> d.vals[8],
                 ctime_sec |-> d.vals[10]])))))

\* RGETATTR payloads: the fields getattr reads (113 bytes) and a cut payload
GetattrPayloads ==
    { U64Bytes(P9_STATS_BASIC) \o QidFile \o Repeat(<<1, 0, 0, 0>>, 3)
                               \o Repeat(<<2, 0, 0, 0, 0, 0, 0, 0>>, 10),
      U64Bytes(P9_STATS_BASIC) \o QidFile }

getattr ==
    IF ~is_dotl(p9_version)
    THEN ReturnAtOnce("getattr", Err("getattr requires 9P2000.L", <<>>))
    ELSE \E path \in Paths : PathCall("getattr", path, Loc0, "act")

\* getattr: the TGETATTR exchange; a payload that does not parse returns at
\* once, otherwise the best-effort clunk and the result
getattr_act ==
    /\ pc = "act" /\ op = "getattr"
    /\ \E reply \in FewReplies(RGETATTR, GetattrPayloads) :
       \E a \in {alloc_tag(next_tag)} :
       \E x \in {PayloadExchange(a, push_u64(push_u32(Message_new(TGETATTR, a.tag), loc.fid),
                                             P9_STATS_BASIC), RGETATTR, reply)} :
       \E attr \in {IF x.res.ok THEN FileAttrOf(x.res.val) ELSE x.res} :
        /\ Later(x, reply)
        /\ IF x.res.ok /\ ~attr.ok THEN Return(attr)
           ELSE ThenClunk(<<loc.fid>>, FALSE, attr)
    /\ StepFrame

\* rename_path: the gate, walk_path(old_path)?, split_parent_name(new_path)?
rename_path ==
    IF ~is_dotl(p9_version)
    THEN ReturnAtOnce("rename_path", Err("rename requires 9P2000.L", <<>>))
    ELSE /\ Call("rename_path")
         /\ \E old_path \in Paths : \E new_path \in Paths :
            \E reply \in WalkReplies(old_path) :
            \E w \in {walk_path(next_tag, next_fid, old_path, reply)} :
            \E sp \in {split_parent_name(new_path)} :
             /\ FirstWalk(w, reply)
             /\ IF ~w.res.ok THEN Return(w.res)
                ELSE IF ~sp.ok THEN Return(Err(sp.msg, <<>>))
                ELSE Goto("walk2", [Loc0 EXCEPT !.fid = w.fid, !.path2 = sp.parent,
                                                !.name = sp.name])
             /\ CallFrame

\* rename_path: walk_path(parent)? and the directory check
rename_path_walk2 ==
    /\ pc = "walk2" /\ op = "rename_path"
    /\ \E reply \in WalkReplies(loc.path2) :
       \E w \in {walk_path(next_tag, next_fid, loc.path2, reply)} :
        /\ LaterWalk(w, reply)
        /\ IF ~w.res.ok THEN Return(w.res)
           ELSE IF ~w.is_dir
           THEN ThenClunk(<<loc.fid, w.fid>>, FALSE,
                          Err("target parent is not a directory", <<>>))
           ELSE Goto("act", [loc EXCEPT !.dfid = w.fid])
    /\ UNCHANGED <<msize, p9_version, op, held, nops, nruns>>

\* rename_path: the TRENAME exchange and the two best-effort clunks
rename_path_act ==
    /\ pc = "act" /\ op = "rename_path"
    /\ \E reply \in FewReplies(RRENAME, {<<>>}) :
       \E a \in {alloc_tag(next_tag)} :
       \E x \in {UnitExchange(a, push_str(push_u32(push_u32(Message_new(TRENAME, a.tag),
                                                            loc.fid), loc.dfid), loc.name),
                              RRENAME, reply)} :
        /\ Later(x, reply)
        /\ ThenClunk(<<loc.fid, loc.dfid>>, FALSE, x.res)
    /\ StepFrame

\* The mode a caller of setattr_mode passes (0o600).
Modes == {U32(384)}

setattr_mode ==
    IF ~is_dotl(p9_version)
    THEN ReturnAtOnce("setattr_mode", Err("setattr requires 9P2000.L", <<>>))
    ELSE \E path \in Paths : \E mode \in Modes :
            PathCall("setattr_mode", path, [Loc0 EXCEPT !.perm = mode], "act")

\* setattr_mode: the TSETATTR exchange and the best-effort clunk
setattr_mode_act ==
    /\ pc = "act" /\ op = "setattr_mode"
    /\ \E reply \in FewReplies(RSETATTR, {<<>>}) :
       \E a \in {alloc_tag(next_tag)} :
       \E x \in {UnitExchange(a, SetattrMsg(a.tag, loc.fid, P9_SETATTR_MODE, loc.perm, U64(0)),
                              RSETATTR, reply)} :
        /\ Later(x, reply)
        /\ ThenClunk(<<loc.fid>>, FALSE, x.res)
    /\ StepFrame

(***************************************************************************)
(* Operations on a fid the caller passes                                   *)
(***************************************************************************)
\* The fids a caller passes: those it holds and one it never got (9).
CallerFids == held \cup {U32(9)}

\* A call of one exchange x: it allocates and walks nothing.
OnlyExchange(x, reply) ==
    /\ First(x, reply)
    /\ Return(x.res)
    /\ allocd' = <<>>
    /\ walked' = {}
    /\ UNCHANGED <<msize, next_fid, p9_version, nruns>>

close_fid ==
    /\ Call("close_fid")
    /\ \E fid \in CallerFids : \E reply \in FewReplies(RCLUNK, {<<>>}) :
       \E c \in {clunk(next_tag, fid, reply)} :
        /\ OnlyExchange(c, reply)
        /\ held' = held \ {fid}

\* The counts a caller of read_fid passes: 0, 100, 2^16.
Counts == {U32(0), U32(100), [hi |-> 1, lo |-> 0]}

\* read_fid's `count`
ClampCount(count, max_count) ==
    IF count = U32(0) \/ U32Less(max_count, count) THEN max_count ELSE count

\* RREAD payloads for a file: two bytes, no data, a count larger than the data
FilePayloads == { Counted(<<7, 8>>), Counted(<<>>), U32Bytes(U32(9)) \o <<1>> }

read_fid ==
    /\ Call("read_fid")
    /\ \E fid \in CallerFids : \E count \in Counts : \E reply \in FewReplies(RREAD, FilePayloads) :
       \E r \in {read(next_tag, fid, U64(0), ClampCount(count, max_read_count(msize)), reply)} :
        /\ OnlyExchange(r, reply)
        /\ held' = held

\* RWRITE payloads: all three bytes taken, two taken, a cut count
WritePayloads == { U32Bytes(U32(3)), U32Bytes(U32(2)), <<1>> }

\* The data slices a caller hands to write_fid: a short one, and one that is
\* longer than the smallest msize a session can negotiate (256).
LongLen == 240
WriteData == { <<1, 2, 3>>, [i \in 1..LongLen |-> 1] }

write_fid ==
    /\ Call("write_fid")
    /\ \E fid \in CallerFids : \E reply \in FewReplies(RWRITE, WritePayloads) :
       \E data \in WriteData :
       \E w \in {write(next_tag, fid, U64(0), data, reply)} :
        /\ OnlyExchange(w, reply)
        /\ held' = held

truncate_fid ==
    IF ~is_dotl(p9_version)
    THEN ReturnAtOnce("truncate_fid", Err("truncate requires 9P2000.L", <<>>))
    ELSE /\ Call("truncate_fid")
         /\ \E fid \in CallerFids : \E reply \in FewReplies(RSETATTR, {<<>>}) :
            \E t \in {setattr_size(next_tag, fid, U64(5), reply)} :
             /\ OnlyExchange(t, reply)
             /\ held' = held

fsync_fid ==
    IF ~is_dotl(p9_version)
    THEN ReturnAtOnce("fsync_fid", Err("fsync requires 9P2000.L", <<>>))
    ELSE /\ Call("fsync_fid")
         /\ \E fid \in CallerFids : \E reply \in FewReplies(RFSYNC, {<<>>}) :
            \E a \in {alloc_tag(next_tag)} :
            \E x \in {UnitExchange(a, push_u32(Message_new(TFSYNC, a.tag), fid), RFSYNC, reply)} :
             /\ OnlyExchange(x, reply)
             /\ held' = held

Next ==
    \/ negotiate
    \/ negotiate_second
    \/ negotiate_attach
    \/ clunk_step
    \/ ensure_dir
    \/ ensure_dir_run
    \/ take_result
    \/ list_dir
    \/ list_dir_open
    \/ list_dir_loop
    \/ list_dir_entries
    \/ list_dir_entries_open
    \/ list_dir_entries_loop
    \/ create_dir
    \/ create_dir_act
    \/ create_file
    \/ create_file_with_flags
    \/ create_file_act
    \/ link
    \/ link_walk2
    \/ link_act
    \/ symlink
    \/ symlink_act
    \/ open_path_with_flags
    \/ open_path_open
    \/ read_link
    \/ read_link_act
    \/ remove_path
    \/ remove_path_act
    \/ getattr
    \/ getattr_act
    \/ rename_path
    \/ rename_path_walk2
    \/ rename_path_act
    \/ setattr_mode
    \/ setattr_mode_act
    \/ close_fid
    \/ read_fid
    \/ write_fid
    \/ truncate_fid
    \/ fsync_fid

Spec == Init /\ [][Next]_vars

(***************************************************************************)
(* Observations of a run                                                   *)
(***************************************************************************)
\* The fid a request names first (the four bytes behind its header), and the
\* second fid of the requests that name two.
ReqFid(req) == read_u32(req, 7).val
ReqFid2(req) == read_u32(req, 11).val

UsesFid(req, fid) ==
    \/ FrameType(req) # TVERSION /\ ReqFid(req) = fid
    \/ FrameType(req) \in {TWALK, TLINK, TRENAME} /\ ReqFid2(req) = fid

\* A request of `type` for `fid` was handed to the transport in this call.
Sent(type, fid) ==
    \E i \in 1..Len(log) : FrameType(log[i].req) = type /\ ReqFid(log[i].req) = fid

\* ... and send_recv returned Ok for it.
Succeeded(type, fid) ==
    \E i \in 1..Len(log) :
        FrameType(log[i].req) = type /\ ReqFid(log[i].req) = fid /\ log[i].res.ok

Allocated == { allocd[i] : i \in 1..Len(allocd) }

FidReturning == {"open_path_with_flags", "create_file", "create_file_with_flags"}

\* The header fields and the payload of a reply the transport gave.
RepType(rep) == rep.buf[5]
RepTag(rep) == rep.buf[6] + 256 * rep.buf[7]
RepPayload(rep) == SubSeq(rep.buf, 8, Len(rep.buf))

\* log[i] is a request of `type` answered by a reply send_recv accepted.
Answered(i, type) == FrameType(log[i].req) = type /\ log[i].res.ok

(***************************************************************************)
(* C1                                                                      *)
(***************************************************************************)
\* C1: when a public operation has returned Ok, every fid it allocated is
\* the returned value (open_path_with_flags, create_file_with_flags), or was
\* the argument of a TCLUNK request, or of a TREMOVE that succeeded.
C1_NoLeakOnOk ==
    (pc = "done" /\ result.ok) =>
        \A fid \in Allocated :
            \/ op \in FidReturning /\ result.val = fid
            \/ Sent(TCLUNK, fid)
            \/ Succeeded(TREMOVE, fid)

\* link has returned Ok with both of its fids allocated.
C1_Witness == pc = "done" /\ result.ok /\ op = "link" /\ Len(allocd) = 2

(***************************************************************************)
(* C2                                                                      *)
(***************************************************************************)
\* C2: when a public operation has returned Err, a TCLUNK request was sent
\* for every fid bound by its successful walks.
C2_ClunkOnErr ==
    (pc = "done" /\ ~result.ok) => \A fid \in walked : Sent(TCLUNK, fid)

(***************************************************************************)
(* C3                                                                      *)
(***************************************************************************)
\* C3: a fid returned by alloc_fid is not one the caller holds (returned by
\* open or create, not yet closed) and not one bound earlier in the same
\* operation.
C3_FidNotInUse ==
    \A j \in 1..Len(allocd) :
        /\ allocd[j] \notin held
        /\ \A i \in 1..(j - 1) : allocd[i] \in walked => allocd[i] # allocd[j]

(***************************************************************************)
(* C4                                                                      *)
(***************************************************************************)
\* C4: alloc_fid never returns 0, 1 (the root fid) or 0xFFFFFFFF (NO_FID).
C4_FidNotReserved ==
    \A i \in 1..Len(allocd) : allocd[i] \notin {U32(0), root_fid, NO_FID}

(***************************************************************************)
(* C5                                                                      *)
(***************************************************************************)
\* The tag after t in the order 1, 2, .., 0xFFFE, 0, 1, ..
TagSucc(t) == IF t = NO_TAG - 1 THEN 0 ELSE t + 1

\* The step sent a request tagged by alloc_tag.
TaggedStep ==
    /\ log' # log
    /\ log' # <<>>
    /\ FrameType(log'[Len(log')].req) # TVERSION

\* C5: alloc_tag never returns NO_TAG; each tag it returns is the successor
\* of the one it returned before (1 first, 0 after 0xFFFE); the only request
\* carrying NO_TAG is TVERSION.
C5_TagOrder ==
    /\ [](last_tag # NO_TAG)
    /\ [](\A i \in 1..Len(log) :
            FrameTag(log[i].req) = NO_TAG => FrameType(log[i].req) = TVERSION)
    /\ [][(TaggedStep /\ nruns' = nruns) =>
            /\ last_tag' = TagSucc(last_tag)
            /\ FrameTag(log'[Len(log')].req) = last_tag']_vars

\* Tag 0 has just been sent, right after 0xFFFE.
C5_Witness ==
    /\ Len(log) >= 2
    /\ FrameTag(log[Len(log) - 1].req) = NO_TAG - 1
    /\ FrameTag(log[Len(log)].req) = 0
    /\ last_tag = 0

(***************************************************************************)
(* C6                                                                      *)
(***************************************************************************)
\* C6: when negotiate has returned Ok, msize >= 256 and the dialect is one
\* of P2000, P2000U, P2000L.
C6_NegotiatedSession ==
    (pc = "done" /\ op = "negotiate" /\ result.ok) =>
        /\ ~U32Less(msize, U32(256))
        /\ p9_version \in {"P2000", "P2000U", "P2000L"}

\* negotiate has returned Ok after an RVERSION offering msize 0.
C6_Witness ==
    /\ pc = "done" /\ op = "negotiate" /\ result.ok
    /\ \E i \in 1..Len(log) :
        /\ Answered(i, TVERSION)
        /\ read_u32(RepPayload(log[i].rep), 0).val = U32(0)

(***************************************************************************)
(* C7                                                                      *)
(***************************************************************************)
\* The version string a TVERSION request offers (behind the u32 msize).
OfferedVersion(req) == read_str(req, 11).val

\* "9p2000.l", "9p2000.u", "9p2000"
KnownDialects ==
    { <<57, 112, 50, 48, 48, 48, 46, 108>>, <<57, 112, 50, 48, 48, 48, 46, 117>>,
      <<57, 112, 50, 48, 48, 48>> }

\* log[i] is a TVERSION answered by an RVERSION whose msize and version
\* string parse.
VersionAnswered(i) ==
    /\ Answered(i, TVERSION)
    /\ read_u32(RepPayload(log[i].rep), 0).ok
    /\ read_str(RepPayload(log[i].rep), 4).ok

\* ... and whose version string is / is not a known dialect.
VersionMatched(i) ==
    /\ VersionAnswered(i)
    /\ to_ascii_lowercase(read_str(RepPayload(log[i].rep), 4).val) \in KnownDialects

VersionUnmatched(i) ==
    /\ VersionAnswered(i)
    /\ to_ascii_lowercase(read_str(RepPayload(log[i].rep), 4).val) \notin KnownDialects

RequestsOf(type) == { i \in 1..Len(log) : FrameType(log[i].req) = type }

\* C7: during negotiate the first request is a TVERSION offering "9P2000.L";
\* a TVERSION offering "9P2000.u" comes only right after an unmatched
\* RVERSION; a TATTACH comes only right after a matched RVERSION and at most
\* once; when neither RVERSION matched, negotiate returns "unsupported 9p
\* version" having sent exactly two TVERSION and no TATTACH.
C7_NegotiateOrder ==
    (op = "negotiate" /\ log # <<>>) =>
        /\ FrameType(log[1].req) = TVERSION /\ OfferedVersion(log[1].req) = Str9P2000L
        /\ \A i \in RequestsOf(TVERSION) :
              OfferedVersion(log[i].req) = Str9P2000u => i > 1 /\ VersionUnmatched(i - 1)
        /\ \A i \in RequestsOf(TATTACH) : i > 1 /\ VersionMatched(i - 1)
        /\ Cardinality(RequestsOf(TATTACH)) <= 1
        /\ (Len(log) >= 2 /\ VersionUnmatched(1) /\ VersionUnmatched(2)) =>
              /\ pc = "done"
              /\ ~result.ok /\ result.msg = "unsupported 9p version: "
              /\ Cardinality(RequestsOf(TVERSION)) = 2
              /\ RequestsOf(TATTACH) = {}

\* negotiate has returned after two RVERSIONs that matched no dialect.
C7_Witness ==
    /\ pc = "done" /\ op = "negotiate"
    /\ Len(log) = 2 /\ VersionUnmatched(1) /\ VersionUnmatched(2)

(***************************************************************************)
(* C8                                                                      *)
(***************************************************************************)
\* log[i] is a TWALK answered by an RWALK whose nwqid is below the number of
\* names sent.
ShortWalk(i) ==
    /\ Answered(i, TWALK)
    /\ read_u16(RepPayload(log[i].rep), 0).ok
    /\ read_u16(RepPayload(log[i].rep), 0).val < read_u16(log[i].req, 15).val

\* C8: after an RWALK with nwqid below the number of names sent, the
\* operation returns "walk failed" and no later request uses new_fid.
C8_WalkFailed ==
    \A i \in 1..Len(log) :
        ShortWalk(i) =>
            /\ pc = "done"
            /\ result = Err("walk failed", <<>>)
            /\ \A j \in (i + 1)..Len(log) : ~UsesFid(log[j].req, ReqFid2(log[i].req))

\* The second walk of link was answered with too few qids.
C8_Witness == op = "link" /\ Len(log) = 2 /\ ShortWalk(2)

(***************************************************************************)
(* C9                                                                      *)
(***************************************************************************)
\* What send_recv has to return for request req and the reply rep, by the
\* first rule that applies (the R-type expected is the T-type plus one).
Classified(req, rep, res) ==
    IF Len(rep.buf) < 7 THEN res = Err("short 9p response", <<>>)
    ELSE IF RepType(rep) = RERROR
    THEN /\ ~res.ok /\ res.msg = "rerror"
         /\ read_str(rep.buf, 7).ok => res.arg = read_str(rep.buf, 7).val
    ELSE IF RepType(rep) = RLERROR
    THEN /\ ~res.ok /\ res.msg = "rlerror errno="
         /\ read_u32(rep.buf, 7).ok =>
                res.arg = <<read_u32(rep.buf, 7).val.hi, read_u32(rep.buf, 7).val.lo>>
    ELSE IF RepType(rep) # FrameType(req) + 1
    THEN res = Err("unexpected response type: ", <<RepType(rep)>>)
    ELSE IF RepTag(rep) # FrameTag(req) THEN res = Err("tag mismatch", <<>>)
    ELSE res = Ok(RepPayload(rep))

\* C9: send_recv classifies every reply by the first rule that applies:
\* short, RERROR, RLERROR, foreign type, foreign tag, payload.
C9_Classification ==
    \A i \in 1..Len(log) :
        ~log[i].rep.terr => Classified(log[i].req, log[i].rep, log[i].res)

\* A reply of the expected type with a foreign tag has been classified.
C9_Witness ==
    \E i \in 1..Len(log) :
        /\ ~log[i].rep.terr /\ Len(log[i].rep.buf) >= 7
        /\ RepType(log[i].rep) = FrameType(log[i].req) + 1
        /\ RepTag(log[i].rep) # FrameTag(log[i].req)
        /\ log[i].res = Err("tag mismatch", <<>>)

(***************************************************************************)
(* C10                                                                     *)
(***************************************************************************)
GatedOps ==
    {"symlink", "getattr", "setattr_mode", "truncate_fid", "rename_path", "fsync_fid"}

\* C10: a call of symlink, getattr, setattr_mode, truncate_fid, rename_path
\* or fsync_fid in a session whose dialect is not P2000L returns an error
\* without an exchange and leaves next_tag, next_fid, msize, dialect alone.
C10_GateFrame ==
    [][(nops' = nops + 1 /\ op' \in GatedOps /\ p9_version # "P2000L") =>
          /\ pc' = "done"
          /\ ~result'.ok
          /\ log' = <<>>
          /\ session' = session]_vars

\* fsync_fid has returned its gate error in a 9P2000.u session.
C10_Witness ==
    /\ pc = "done" /\ op = "fsync_fid" /\ p9_version = "P2000U"
    /\ result = Err("fsync requires 9P2000.L", <<>>) /\ log = <<>>

(***************************************************************************)
(* C11                                                                     *)
(***************************************************************************)
DialectOps ==
    {"list_dir", "list_dir_entries", "open_path_with_flags", "create_dir",
     "create_file", "create_file_with_flags"}

\* The request types of the call so far.
SentTypes == { FrameType(log[i].req) : i \in 1..Len(log) }

\* C11: list_dir, list_dir_entries, open_path_with_flags, create_dir and
\* create_file_with_flags send, besides TWALK and TCLUNK, only TLOPEN,
\* TREADDIR, TMKDIR, TLCREATE in a P2000L session and only TOPEN, TREAD,
\* TCREATE in a P2000 or P2000U session.
C11_MessageFamily ==
    op \in DialectOps =>
        /\ p9_version = "P2000L" =>
              SentTypes \subseteq {TWALK, TCLUNK, TLOPEN, TREADDIR, TMKDIR, TLCREATE}
        /\ p9_version \in {"P2000", "P2000U"} =>
              SentTypes \subseteq {TWALK, TCLUNK, TOPEN, TREAD, TCREATE}

\* list_dir has opened and read a directory in a P2000L session.
C11_Witness ==
    /\ op = "list_dir" /\ p9_version = "P2000L"
    /\ {TLOPEN, TREADDIR} \subseteq SentTypes

\* create_dir has sent TCREATE in a P2000U session.
C11_WitnessLegacy ==
    /\ op = "create_dir" /\ p9_version = "P2000U" /\ TCREATE \in SentTypes

(***************************************************************************)
(* C12                                                                     *)
(***************************************************************************)
\* C12: in a P2000L session every iteration of the readdir loop of list_dir
\* and list_dir_entries that does not leave the loop strictly increases the
\* 64-bit offset cursor.
C12_ReaddirProgress ==
    [][(pc = "loop" /\ pc' = "loop" /\ p9_version = "P2000L") =>
          U64Greater(loc'.offset, loc.offset)]_vars

\* The loop has gone round a second time: both iterations stayed in it.
C12_Witness ==
    /\ pc = "loop" /\ p9_version = "P2000L" /\ op = "list_dir_entries"
    /\ loc.chunks = 2 /\ U64Greater(loc.offset, U64(0))

(***************************************************************************)
(* C13                                                                     *)
(***************************************************************************)
\* "." and ".."
DotNames == { <<46>>, <<46, 46>> }

\* The names of a listing: list_dir gives names, list_dir_entries gives
\* entries that carry one.
ListedNames(call, val) ==
    IF call = "list_dir" THEN { val[i] : i \in 1..Len(val) }
    ELSE { val[i].name : i \in 1..Len(val) }

\* The names list_dir / list_dir_entries has collected or returned.
NamesSoFar ==
    IF pc = "done" THEN (IF result.ok THEN ListedNames(op, result.val) ELSE {})
    ELSE IF pc = "clunk" THEN (IF loc.pending.ok THEN ListedNames(op, loc.pending.val) ELSE {})
    ELSE ListedNames(op, loc.names)

\* C13: the result of list_dir and of list_dir_entries (and the vector they
\* collect it in) never holds an entry named "." or "..", in either dialect.
C13_NoDotEntries ==
    op \in {"list_dir", "list_dir_entries"} => NamesSoFar \cap DotNames = {}

\* log[i] is a directory read whose data holds a record named "..".
GaveDotDot(i) ==
    \/ /\ Answered(i, TREADDIR)
       /\ RepPayload(log[i].rep) = Counted(Dirent(<<46, 46>>, 3, 4) \o Dirent(<<99>>, 4, 8))
    \/ /\ Answered(i, TREAD)
       /\ RepPayload(log[i].rep) = Counted(Stat(<<97>>) \o Stat(<<46>>) \o Stat(<<46, 46>>))

\* list_dir has returned a listing in a P2000L session after a chunk that
\* held "..".
C13_Witness ==
    /\ pc = "done" /\ op = "list_dir" /\ result.ok /\ result.val # <<>>
    /\ p9_version = "P2000L"
    /\ \E i \in 1..Len(log) : GaveDotDot(i)

\* list_dir_entries has returned a listing in a legacy session after a chunk
\* that held "." and "..".
C13_WitnessLegacy ==
    /\ pc = "done" /\ op = "list_dir_entries" /\ result.ok /\ result.val # <<>>
    /\ p9_version = "P2000"
    /\ \E i \in 1..Len(log) : GaveDotDot(i)

(***************************************************************************)
(* C14                                                                     *)
(***************************************************************************)
\* C14: once getattr's walk has succeeded in a P2000L session, getattr has
\* sent a TCLUNK for the walked fid when it returns, however the TGETATTR
\* was answered; an RLERROR is returned as the server's error.
C14_GetattrClunks ==
    (pc = "done" /\ op = "getattr" /\ p9_version = "P2000L" /\ Len(log) >= 2) =>
        /\ \A fid \in walked : Sent(TCLUNK, fid)
        /\ (~log[2].rep.terr /\ RepType(log[2].rep) = RLERROR) =>
              (~result.ok /\ result.msg = "rlerror errno=")

\* getattr has returned after an RGETATTR too short to parse.
C14_ShortReply ==
    /\ pc = "done" /\ op = "getattr" /\ Len(log) = 2
    /\ Answered(2, TGETATTR)
    /\ Len(RepPayload(log[2].rep)) = 21

\* getattr has returned the server's error after an RLERROR, the fid clunked.
C14_RlerrorClunked ==
    /\ pc = "done" /\ op = "getattr" /\ Len(log) = 3
    /\ RepType(log[2].rep) = RLERROR
    /\ result = Err("rlerror errno=", <<0, 2>>)
    /\ Sent(TCLUNK, ReqFid(log[2].req))

(***************************************************************************)
(* C15                                                                     *)
(***************************************************************************)
\* C15: the TLINK request of link(target, link_path) carries dfid (the fid
\* walked first, to the parent of link_path), then fid (the fid walked
\* second, to target), then the name.
C15_LinkWireOrder ==
    op = "link" =>
        \A i \in 1..Len(log) :
            FrameType(log[i].req) = TLINK =>
                /\ ReqFid(log[i].req) = allocd[1]
                /\ ReqFid2(log[i].req) = allocd[2]
                /\ read_str(log[i].req, 15).ok

\* link has sent its TLINK, with the fid walked to target first.
C15_TargetFirst ==
    /\ op = "link" /\ Len(log) >= 3 /\ FrameType(log[3].req) = TLINK
    /\ ReqFid(log[3].req) = allocd[2]
    /\ ReqFid2(log[3].req) = allocd[1]
    /\ read_str(log[3].req, 15).val = <<98>>

(***************************************************************************)
(* C16                                                                     *)
(***************************************************************************)
\* The request types the code of each public operation passes to
\* Message::new, its private primitives included.
TypesOf(call) ==
    CASE call = "negotiate" -> {TVERSION, TATTACH}
      [] call = "ensure_dir" -> {TWALK, TCLUNK}
      [] call \in {"list_dir", "list_dir_entries"} ->
            {TWALK, TOPEN, TLOPEN, TREAD, TREADDIR, TCLUNK}
      [] call = "create_dir" -> {TWALK, TMKDIR, TCREATE, TCLUNK}
      [] call \in {"create_file", "create_file_with_flags"} ->
            {TWALK, TLCREATE, TCREATE, TCLUNK}
      [] call = "link" -> {TWALK, TLINK, TCLUNK}
      [] call = "symlink" -> {TWALK, TSYMLINK, TCLUNK}
      [] call = "open_path_with_flags" -> {TWALK, TOPEN, TLOPEN, TCLUNK}
      [] call = "read_link" -> {TWALK, TREADLINK, TCLUNK}
      [] call = "remove_path" -> {TWALK, TREMOVE, TCLUNK}
      [] call = "getattr" -> {TWALK, TGETATTR, TCLUNK}
      [] call = "rename_path" -> {TWALK, TRENAME, TCLUNK}
      [] call = "setattr_mode" -> {TWALK, TSETATTR, TCLUNK}
      [] call = "close_fid" -> {TCLUNK}
      [] call = "read_fid" -> {TREAD}
      [] call = "write_fid" -> {TWRITE}
      [] call = "truncate_fid" -> {TSETATTR}
      [] call = "fsync_fid" -> {TFSYNC}
      [] OTHER -> {}

\* The four bytes at the head of a frame, read little-endian (frames here
\* are shorter than 2^31 bytes).
SizePrefix(req) == req[1] + 256 * req[2] + 65536 * req[3] + 16777216 * req[4]

InCall == pc \notin {"idle", "done"}

OfferedMsize(rep) == read_u32(RepPayload(rep), 0).val
AtLeast256(m) == IF m.hi = 0 /\ m.lo < 256 THEN [hi |-> 0, lo |-> 256] ELSE m

\* The msize a TVERSION request carries.
RequestedMsize(req) == read_u32(req, 7).val

\* C18: after each step in which send_tversion parsed an RVERSION (msize and
\* version string), the session msize is max(the RVERSION's msize, 256),
\* whether or not the version string is accepted; a second TVERSION carries
\* the msize so updated.
C18_MsizeUpdate ==
    /\ [][(log' # log /\ log' # <<>> /\ op' = "negotiate"
            /\ FrameType(log'[Len(log')].req) = TVERSION
            /\ log'[Len(log')].res.ok
            /\ read_u32(RepPayload(log'[Len(log')].rep), 0).ok
            /\ read_str(RepPayload(log'[Len(log')].rep), 4).ok) =>
              msize' = AtLeast256(OfferedMsize(log'[Len(log')].rep))]_vars
    /\ []((op = "negotiate" /\ Len(log) >= 2 /\ FrameType(log[2].req) = TVERSION) =>
              RequestedMsize(log[2].req) = AtLeast256(OfferedMsize(log[1].rep)))

\* The second TVERSION carries 256 after an RVERSION with msize 0 and a
\* version string that was rejected.
C18_Witness ==
    /\ op = "negotiate" /\ Len(log) >= 2 /\ FrameType(log[2].req) = TVERSION
    /\ VersionUnmatched(1)
    /\ OfferedMsize(log[1].rep) = U32(0)
    /\ RequestedMsize(log[2].req) = U32(256)

(***************************************************************************)
(* C19                                                                     *)
(***************************************************************************)
\* The offset a TREAD / TREADDIR request carries (behind the fid).
RequestedOffset(req) == read_u64(req, 11).val

\* What the RREADDIR reply log[i] holds: [ok, entries, last] of its counted
\* data, ~ok when send_recv refused the reply or the data does not parse.
ChunkOf(i) ==
    IF ~log[i].res.ok THEN [ok |-> FALSE, entries |-> <<>>, last |-> <<>>]
    ELSE Bind(CountedData(log[i].res.val, ""), LAMBDA d :
             IF ~d.ok THEN [ok |-> FALSE, entries |-> <<>>, last |-> <<>>]
             ELSE Bind(parse_dir_entries_l(d.val), LAMBDA p :
                      [ok |-> p.ok, entries |-> p.entries, last |-> p.last]))

\* The reply log[i] ends the loop: no names in it, or no last offset, or a
\* last offset not greater than the one requested.
EndsListing(i) ==
    \/ ~ChunkOf(i).ok
    \/ ChunkOf(i).entries = <<>>
    \/ ChunkOf(i).last = <<>>
    \/ ~U64Greater(ChunkOf(i).last[1], RequestedOffset(log[i].req))

DotlListing == op \in {"list_dir", "list_dir_entries"} /\ p9_version = "P2000L"

\* C19: in a P2000L listing the first TREADDIR carries offset 0; a later
\* TREADDIR follows only a reply with names whose last offset is greater than
\* the offset requested, and carries that last offset (so the offsets
\* strictly increase); replies [a, b] with last offset 2 and then an empty
\* one make exactly two TREADDIR exchanges and, the final TCLUNK answered,
\* the result [a, b].
C19_ReaddirCursor ==
    DotlListing =>
        /\ \A i \in RequestsOf(TREADDIR) :
              IF i - 1 \in RequestsOf(TREADDIR)
              THEN /\ ~EndsListing(i - 1)
                   /\ RequestedOffset(log[i].req) = ChunkOf(i - 1).last[1]
                   /\ U64Greater(RequestedOffset(log[i].req),
                                 RequestedOffset(log[i - 1].req))
              ELSE RequestedOffset(log[i].req) = U64(0)
        /\ \A i \in RequestsOf(TREADDIR) : \A j \in RequestsOf(TREADDIR) :
              (i < j) => \A k \in i..j : k \in RequestsOf(TREADDIR)
        /\ (/\ Len(log) >= 4
            /\ RepPayload(log[3].rep) = Counted(Dirent(<<97>>, 1, 8) \o Dirent(<<98>>, 2, 4))
            /\ ChunkOf(3).ok
            /\ RepPayload(log[4].rep) = Counted(<<>>)
            /\ ChunkOf(4).ok) =>
              /\ Cardinality(RequestsOf(TREADDIR)) = 2
              /\ pc \in {"clunk", "done"}
              /\ (pc = "clunk" \/ result.ok) =>
                    /\ ListedNames(op, IF pc = "done" THEN result.val ELSE loc.pending.val)
                          = { <<97>>, <<98>> }
                    /\ Len(IF pc = "done" THEN result.val ELSE loc.pending.val) = 2
              /\ (pc = "done" /\ ~result.ok) => (Len(log) = 5 /\ log[5].res = result)

\* list_dir has returned [a, b] after the replies [a@1, b@2] and [].
C19_Witness ==
    /\ DotlListing /\ op = "list_dir" /\ pc = "done" /\ Len(log) = 5
    /\ RepPayload(log[3].rep) = Counted(Dirent(<<97>>, 1, 8) \o Dirent(<<98>>, 2, 4))
    /\ RepPayload(log[4].rep) = Counted(<<>>) /\ ChunkOf(4).ok
    /\ RequestedOffset(log[4].req) = U64(2)
    /\ result = Ok(<< <<97>>, <<98>> >>)

\* A listing has stopped at a reply whose last offset equals the offset
\* requested.
C19_WitnessNotGreater ==
    /\ DotlListing /\ Len(log) = 5 /\ FrameType(log[5].req) = TCLUNK
    /\ ChunkOf(4).ok /\ ChunkOf(4).entries # <<>>
    /\ ChunkOf(4).last = <<RequestedOffset(log[4].req)>>

(***************************************************************************)
(* C20                                                                     *)
(***************************************************************************)
\* The data bytes the RREAD reply log[i] returned: <<n>>, or <<>> when
\* send_recv refused the reply or its count does not fit.
DataBytes(i) ==
    IF ~log[i].res.ok THEN <<>>
    ELSE Bind(CountedData(log[i].res.val, ""), LAMBDA d :
             IF d.ok THEN <<Len(d.val)>> ELSE <<>>)

\* The bytes returned by the RREAD replies before log[i].
RECURSIVE BytesBefore(_)
BytesBefore(i) ==
    IF i <= 1 THEN 0
    ELSE BytesBefore(i - 1)
         + (IF FrameType(log[i - 1].req) = TREAD /\ DataBytes(i - 1) # <<>>
            THEN DataBytes(i - 1)[1] ELSE 0)

\* A stat record of "a" followed by the first bytes of a second record.
TruncatedChunk == Stat(<<97>>) \o SubSeq(Stat(<<98>>), 1, 12)

LegacyListing == op \in {"list_dir", "list_dir_entries"} /\ p9_version \in {"P2000", "P2000U"}

\* C20: in a legacy listing each TREAD carries as offset the sum of the
\* bytes returned by the earlier RREADs of the call, and none follows an
\* RREAD with zero bytes; a chunk ending in a truncated stat record is no
\* error: the record before it is emitted, the truncated one is not, and the
\* cursor advances by all the bytes of the chunk.
C20_LegacyCursor ==
    LegacyListing =>
        /\ \A i \in RequestsOf(TREAD) :
              /\ RequestedOffset(log[i].req) = U64(BytesBefore(i))
              /\ \A j \in RequestsOf(TREAD) : j < i => DataBytes(j) \notin {<<>>, <<0>>}
        /\ (/\ log # <<>>
            /\ FrameType(log[Len(log)].req) = TREAD
            /\ log[Len(log)].res.ok
            /\ RepPayload(log[Len(log)].rep) = Counted(TruncatedChunk)) =>
              /\ pc = "loop"
              /\ loc.offset = U64(BytesBefore(Len(log)) + Len(TruncatedChunk))
              /\ Len(loc.names) = Cardinality(RequestsOf(TREAD))
              /\ ListedNames(op, loc.names) = { <<97>> }

\* list_dir has read past a chunk with a truncated record: the next TREAD
\* starts behind all of its bytes and the call returns [a].
C20_Witness ==
    /\ LegacyListing /\ op = "list_dir" /\ pc = "done" /\ Len(log) = 5
    /\ RepPayload(log[3].rep) = Counted(TruncatedChunk)
    /\ FrameType(log[4].req) = TREAD
    /\ RequestedOffset(log[4].req) = U64(Len(TruncatedChunk))
    /\ DataBytes(4) = <<0>>
    /\ result = Ok(<< <<97>> >>)

(***************************************************************************)
(* C21                                                                     *)
(***************************************************************************)
\* The types of the requests of the call so far, in order.
TypeSeq == [i \in 1..Len(log) |-> FrameType(log[i].req)]

\* C21: remove_path sends TWALK, then TREMOVE on the walked fid; after a
\* TREMOVE that succeeded it returns Ok(()) with no TCLUNK sent; after one
\* that failed it sends one TCLUNK for the fid and returns the TREMOVE
\* error whatever the clunk's outcome.
C21_RemoveThenNoClunk ==
    op = "remove_path" =>
        /\ \E n \in 0..3 : TypeSeq = SubSeq(<<TWALK, TREMOVE, TCLUNK>>, 1, n)
        /\ Len(log) >= 2 =>
              /\ log[1].res.ok
              /\ ReqFid(log[2].req) = ReqFid2(log[1].req)
              /\ IF log[2].res.ok
                 THEN pc = "done" /\ result = Ok(<<>>) /\ Len(log) = 2
                 ELSE /\ pc \in {"clunk", "done"}
                      /\ pc = "done" =>
                            /\ Len(log) = 3
                            /\ ReqFid(log[3].req) = ReqFid(log[2].req)
                            /\ result = log[2].res

\* remove_path has returned the TREMOVE error although its clunk failed too.
C21_Witness ==
    /\ op = "remove_path" /\ pc = "done" /\ Len(log) = 3
    /\ ~log[2].rep.terr /\ RepType(log[2].rep) = RLERROR
    /\ log[3].rep.terr
    /\ result = Err("rlerror errno=", <<0, 2>>)

\* remove_path has returned Ok(()) after two requests.
C21_WitnessRemoved ==
    /\ op = "remove_path" /\ pc = "done" /\ result.ok /\ TypeSeq = <<TWALK, TREMOVE>>

(***************************************************************************)
(* C22                                                                     *)
(***************************************************************************)
OpenTypes == {TOPEN, TLOPEN, TCREATE, TLCREATE}

\* C22: open_path_with_flags and create_file_with_flags return Ok only
\* after an open / create exchange that succeeded, the value being the
\* walked fid, with no TCLUNK sent; after an open / create exchange that
\* failed they send one TCLUNK for the walked fid and return the open /
\* create error whatever the clunk's outcome; close_fid sends exactly one
\* TCLUNK, for the fid it is given.
C22_FidOnlyOnSuccess ==
    /\ (op \in FidReturning /\ pc = "done" /\ result.ok) =>
          /\ Len(log) = 2
          /\ FrameType(log[2].req) \in OpenTypes /\ log[2].res.ok
          /\ result.val = ReqFid2(log[1].req)
          /\ ReqFid(log[2].req) = result.val
          /\ TCLUNK \notin SentTypes
    /\ (op \in FidReturning /\ Len(log) >= 2 /\ FrameType(log[2].req) \in OpenTypes
          /\ ~log[2].res.ok) =>
          /\ pc \in {"clunk", "done"}
          /\ pc = "done" =>
                /\ TypeSeq = <<TWALK, FrameType(log[2].req), TCLUNK>>
                /\ ReqFid(log[3].req) = ReqFid2(log[1].req)
                /\ result = log[2].res
    /\ op = "close_fid" => (TypeSeq = <<TCLUNK>> /\ ReqFid(log[1].req) \notin held)

\* open_path_with_flags has returned the open error although the clunk
\* failed too.
C22_Witness ==
    /\ op = "open_path_with_flags" /\ pc = "done" /\ Len(log) = 3
    /\ ~log[2].rep.terr /\ RepType(log[2].rep) = RLERROR
    /\ log[3].rep.terr
    /\ result = Err("rlerror errno=", <<0, 2>>)

\* The caller closes a fid that create_file_with_flags returned.
C22_WitnessClosed ==
    /\ op = "close_fid" /\ pc = "done" /\ result.ok
    /\ ReqFid(log[1].req) = U32(2)
    /\ held = {}

(***************************************************************************)
(* C23                                                                     *)
(***************************************************************************)
\* The count a TREAD / TREADDIR request carries (behind fid and offset).
RequestedCount(req) == read_u32(req, 19).val

\* msize - 64 for an msize of at least 64
MsizeLess64 ==
    IF msize.lo >= 64 THEN [hi |-> msize.hi, lo |-> msize.lo - 64]
    ELSE [hi |-> msize.hi - 1, lo |-> msize.lo + 65536 - 64]

\* u32 `<=`
AtMost(x, y) == x.hi < y.hi \/ (x.hi = y.hi /\ x.lo <= y.lo)

\* What read_fid has to send for the caller's count c.
CountFor(c) ==
    IF (c.hi = 0 /\ c.lo = 0) \/ ~AtMost(c, MsizeLess64) THEN MsizeLess64 ELSE c

C23_WitnessListing ==
    /\ op = "list_dir" /\ msize = [hi |-> 0, lo |-> 256]
    /\ \E i \in RequestsOf(TREADDIR) : RequestedCount(log[i].req) = [hi |-> 0, lo |-> 192]

(***************************************************************************)
(* C24                                                                     *)
(***************************************************************************)
\* log[i] is a TWALK of at least one name answered by an RWALK with all its
\* qids, the last of them not a directory.
WalkedToFile(i) ==
    /\ Answered(i, TWALK)
    /\ read_u16(log[i].req, 15).val >= 1
    /\ read_u16(log[i].res.val, 0).ok
    /\ read_u16(log[i].res.val, 0).val = read_u16(log[i].req, 15).val
    /\ Len(log[i].res.val) >= 2 + 13 * read_u16(log[i].req, 15).val
    /\ log[i].res.val[2 + 13 * (read_u16(log[i].req, 15).val - 1) + 1] < 128

DirCheckOps ==
    {"list_dir", "list_dir_entries", "ensure_dir", "create_dir", "create_file",
     "create_file_with_flags", "link", "symlink"}

\* C24: when the walk succeeded and its target is not a directory, the
\* operation returns "not a directory" (list_dir, list_dir_entries,
\* ensure_dir) or "parent is not a directory" (create_dir,
\* create_file_with_flags, link, symlink), whatever the outcome of the TCLUNK
\* it sends for the fid.
C24_PreconditionError ==
    (op \in DirCheckOps /\ pc = "done" /\ log # <<>> /\ WalkedToFile(1)) =>
        result = Err(IF op \in {"list_dir", "list_dir_entries", "ensure_dir"}
                     THEN "not a directory" ELSE "parent is not a directory", <<>>)

\* list_dir has returned the error of the failed clunk after a walk to a
\* file.
C24_ClunkErrorReturned ==
    /\ op = "list_dir" /\ pc = "done" /\ Len(log) = 2 /\ WalkedToFile(1)
    /\ FrameType(log[2].req) = TCLUNK /\ log[2].rep.terr
    /\ result = Err("transport error", <<>>)

\* list_dir has returned "not a directory" after a clunk that was answered.
C24_ClunkAnswered ==
    /\ op = "list_dir" /\ pc = "done" /\ Len(log) = 2 /\ WalkedToFile(1)
    /\ FrameType(log[2].req) = TCLUNK /\ log[2].res.ok
    /\ result = Err("not a directory", <<>>)

(***************************************************************************)
(* C25                                                                     *)
(***************************************************************************)
\* The version string the RVERSION reply log[i] echoes, in lower case.
EchoedLower(i) == to_ascii_lowercase(read_str(RepPayload(log[i].rep), 4).val)

\* The dialect a lower-case version string names.
DialectNamed(low) ==
    IF low = <<57, 112, 50, 48, 48, 48, 46, 108>> THEN "P2000L"
    ELSE IF low = <<57, 112, 50, 48, 48, 48, 46, 117>> THEN "P2000U"
    ELSE "P2000"

\* C25: when an RVERSION of negotiate echoes a string that matches a known
\* dialect case-insensitively, the session adopts the dialect that string
\* names, whichever candidate was sent, sends no further TVERSION and goes
\* on to TATTACH.
C25_EchoDecides ==
    op = "negotiate" =>
        \A i \in 1..Len(log) :
            VersionMatched(i) =>
                /\ p9_version = DialectNamed(EchoedLower(i))
                /\ RequestsOf(TVERSION) \subseteq 1..i
                /\ Len(log) > i => (Len(log) = i + 1 /\ FrameType(log[i + 1].req) = TATTACH)
                /\ Len(log) = i => pc = "attach"

\* The session has adopted P2000U and attached after "9p2000.u" was echoed
\* to the "9P2000.L" candidate.
C25_Witness ==
    /\ op = "negotiate" /\ pc = "done" /\ result.ok /\ Len(log) = 2
    /\ OfferedVersion(log[1].req) = Str9P2000L
    /\ VersionMatched(1)
    /\ read_str(RepPayload(log[1].rep), 4).val = <<57, 112, 50, 48, 48, 48, 46, 117>>
    /\ p9_version = "P2000U"
    /\ FrameType(log[2].req) = TATTACH

\* The session has adopted P2000 after "9P2000" was echoed to the "9P2000.L"
\* candidate.
C25_WitnessPlain ==
    /\ op = "negotiate" /\ Len(log) = 1
    /\ VersionMatched(1)
    /\ read_str(RepPayload(log[1].rep), 4).val = <<57, 80, 50, 48, 48, 48>>
    /\ p9_version = "P2000"

(***************************************************************************)
(* C26                                                                     *)
(***************************************************************************)
\* The RREADDIR reply log[i] holds at least one record and the offset of its
\* last record is greater than the offset requested.
ServesMore(i) ==
    /\ Answered(i, TREADDIR)
    /\ ChunkOf(i).ok
    /\ ChunkOf(i).last # <<>>
    /\ U64Greater(ChunkOf(i).last[1], RequestedOffset(log[i].req))

\* C26: in a P2000L listing every RREADDIR reply with at least one record
\* and a last offset greater than the one requested is followed by a
\* TREADDIR at that offset, also when all its records are named "." or
\* "..".
C26_DotChunkFollowed ==
    DotlListing =>
        \A i \in 1..Len(log) :
            ServesMore(i) =>
                /\ Len(log) = i => pc = "loop"
                /\ Len(log) > i =>
                      /\ FrameType(log[i + 1].req) = TREADDIR
                      /\ RequestedOffset(log[i + 1].req) = ChunkOf(i).last[1]

\* list_dir has returned an empty listing after a first chunk that held
\* only "." at offset 3: it sent its TCLUNK and no second TREADDIR.
C26_StoppedAtDotChunk ==
    /\ DotlListing /\ op = "list_dir" /\ pc = "done" /\ result = Ok(<<>>)
    /\ TypeSeq = <<TWALK, TLOPEN, TREADDIR, TCLUNK>>
    /\ RepPayload(log[3].rep) = Counted(Dirent(<<46>>, 3, 4))
    /\ ServesMore(3)

(***************************************************************************)
(* C27                                                                     *)
(***************************************************************************)
\* negotiate() has just returned Ok(()).
NegotiateOk == op = "negotiate" /\ pc = "done" /\ result = Ok(<<>>)

\* The dialect and msize a new session holds once negotiate() has returned
\* Ok(()) on its first candidate: the server echoed "9P2000.L" with msize 0
\* or 8192, or "9p2000.u" or "9P2000" with msize 8192.
Negotiated ==
    { <<"P2000L", U32(256)>>, <<"P2000L", U32(8192)>>,
      <<"P2000U", U32(8192)>>, <<"P2000", U32(8192)>> }

\* The session after new(), one successful negotiate() (a TVERSION under
\* NO_TAG and a TATTACH under tag 1) and the return to the caller.
InitNegotiated ==
    /\ \E s \in Negotiated : p9_version = s[1] /\ msize = s[2]
    /\ next_tag = 2
    /\ next_fid = U32(2)
    /\ pc = "idle"
    /\ op = "none"
    /\ loc = Loc0
    /\ log = <<>>
    /\ result = Ok(<<>>)
    /\ allocd = <<>>
    /\ walked = {}
    /\ held = {}
    /\ last_tag = 1
    /\ nops = 1
    /\ nruns = 0

SpecNegotiated == InitNegotiated /\ [][Next]_vars

\* Under Spec: negotiate() has returned Ok(()) on a new session, in the
\* state from which its return to the caller gives InitNegotiated.
ReachesNegotiated ==
    /\ NegotiateOk
    /\ <<p9_version, msize>> \in Negotiated
    /\ next_tag = 2 /\ next_fid = U32(2) /\ loc = Loc0 /\ held = {}
    /\ last_tag = 1 /\ nops = 1 /\ nruns = 0

\* C27: in a session that has negotiated, every request frame handed to the
\* transport, by any public operation with any argument, is at most the
\* session's msize bytes long.
C27_FrameWithinMsize ==
    \A i \in 1..Len(log) : Len(log[i].req) <= msize.hi * 65536 + msize.lo

\* A session that negotiated msize 256 has sent a TWRITE carrying LongLen
\* bytes of data in one frame.
C27_LongWrite ==
    /\ op = "write_fid" /\ log # <<>>
    /\ p9_version # "Unknown" /\ msize = U32(256)
    /\ FrameType(log[1].req) = TWRITE
    /\ Len(log[1].req) = 23 + LongLen
    /\ SizePrefix(log[1].req) = Len(log[1].req)

(***************************************************************************)
(* C28                                                                     *)
(***************************************************************************)
\* The step is negotiate's first exchange, TVERSION("9P2000.L").
FirstCandidateStep ==
    /\ pc = "idle" /\ op' = "negotiate" /\ Len(log') = 1
    /\ FrameType(log'[1].req) = TVERSION
    /\ OfferedVersion(log'[1].req) = Str9P2000L

\* C28: when the exchange for the first candidate fails (transport error,
\* RERROR/RLERROR, wrong reply type, short reply, unparsable RVERSION
\* payload), negotiate returns that error in the same step, the dialect is
\* left as it was (Unknown on a new session) and the call sends nothing
\* more; a second TVERSION or a TATTACH of negotiate is preceded by a
\* well-formed RVERSION to the first candidate, and the second TVERSION by
\* one whose version string is not recognised.
C28_FirstFailureReturns ==
    /\ [][(FirstCandidateStep /\ ~VersionAnswered(1)') =>
            /\ pc' = "done"
            /\ ~result'.ok
            /\ ~log'[1].res.ok => result' = log'[1].res
            /\ p9_version' = p9_version]_vars
    /\ [](op = "negotiate" =>
            /\ pc \in {"version2", "attach"} => VersionAnswered(1)
            /\ (pc = "done" /\ log # <<>> /\ ~VersionAnswered(1)) =>
                  Len(log) = 1 /\ ~result.ok
            /\ Len(log) >= 2 =>
                  /\ VersionAnswered(1)
                  /\ FrameType(log[2].req) = TVERSION => VersionUnmatched(1))

\* negotiate on a new session has returned the error of its only exchange:
\* an RLERROR to the first candidate.
C28_Witness ==
    /\ op = "negotiate" /\ pc = "done" /\ Len(log) = 1
    /\ p9_version = "Unknown"
    /\ ~log[1].rep.terr /\ RepType(log[1].rep) = RLERROR
    /\ result = log[1].res /\ ~result.ok

\* ... and the error of reading an RVERSION payload that does not parse.
C28_WitnessUnparsable ==
    /\ op = "negotiate" /\ pc = "done" /\ Len(log) = 1
    /\ p9_version = "Unknown"
    /\ Answered(1, TVERSION) /\ ~VersionAnswered(1)
    /\ log[1].res.ok /\ ~result.ok

====
